---- MODULE Spec2Model ----
(***************************************************************************)
(* Spin settlement state machine of the encrypted wheel game: the browser  *)
(* session (SpinningWheelGame in game.ts), the player API handler and the  *)
(* weekly reset handler, with requests in flight between them.             *)
(*                                                                         *)
(* Time is counted in ticks; TicksPerDay ticks make one UTC day and one    *)
(* claim cooldown period (24h).  A synchronous block of a handler (code    *)
(* between two awaits) is one atomic step; every await on the network is a *)
(* suspension point at which any other handler may run.                    *)
(***************************************************************************)
EXTENDS Integers, Sequences, FiniteSets, TLC

\* ---------------------------------------------------------------- bounds
TicksPerDay == 2
MaxDay == 2
MaxTasks == 2
MaxPending == 1
MaxCredits == 100
MaxSettled == 6
MaxPaidSpins == 1
MaxB == 120
MaxRetries == 3
MaxScore == 2
MaxLimit == 4
MaxCalls == 2
MaxRaw == 3

\* ------------------------------------------------------ program constants
spinsPerDay == 5
wheelSections == 8
basePoints == 100
cooldownPeriod == TicksPerDay
wheelValues == <<"2x", "3x", "0.5x", "-0.6x", "-20%", "30%", "-50%", "-80%">>

Wallets == {"W1", "W2"}
NoWallet == "Not connected"
NoDate == -1
NoTime == 0
Slots == 1..MaxTasks
FirstTick == TicksPerDay
LastTick == (MaxDay + 1) * TicksPerDay - 1

\* raw results handed to handleArciumSpinResult: 1..8 from the computation
\* or the demo draw, 0 and 9 to exercise the clamp
\* the default of maxRetries, which submitSpinComputation also passes
maxRetries == 60
\* the values of maxRetries tried
RetryInputs == (0..MaxRetries) \cup {maxRetries}

RawResults == 0..(wheelSections + 1)
\* raw results drawn in the session specifications: for daily spins the
\* first and the last segment, for practice spins also the two clamped ones
DailyRaw == {1, wheelSections}
PracticeRaw == {0, 1, wheelSections, wheelSections + 1}
\* the integers tried as the result argument of handleArciumSpinResult
RawInputs == (1 - MaxRaw)..(wheelSections + MaxRaw)

VARIABLES
  now,                \* Date.now() in ticks
  wallet,             \* walletAddress.textContent / this.wallet
  isSpinning,
  playerCredits,
  lastClaimTime,      \* NoTime models null (0 is falsy in canClaim as well)
  spinsUsedToday,
  lastSpinResetDate,  \* UTC day number, NoDate models null
  resultText,         \* message shown in .result-text: text, label, link
  tasks,              \* suspended async handler invocations of the session
  requests,           \* POST /api/player requests in flight
  player,             \* redis player:<wallet> records
  playersAll,         \* redis set players:all
  leaderboard,        \* redis sorted set leaderboard:credits
  lastResetWeek,      \* redis system:lastResetWeek, 0 models absent
  poll,               \* one call of awaitComputationFinalization
  username,           \* the username field of the player:<wallet> records
  reply,              \* the outcome of the API handler that ran last
  calls,              \* API handler invocations between their store calls
  board,              \* the entries renderLeaderboard rendered last
  lastWeeklyReset,    \* localStorage lastWeeklyReset, NoTime models absent
  settledToday,       \* history: daily spins settled per wallet this day
  lastOp              \* history: the handler step taken last

vars == <<now, wallet, isSpinning, playerCredits, lastClaimTime,
          spinsUsedToday, lastSpinResetDate, resultText, tasks, requests,
          player, playersAll, leaderboard, lastResetWeek, poll,
          username, reply, calls, board, lastWeeklyReset,
          settledToday, lastOp>>

sessVars == <<wallet, isSpinning, playerCredits, lastClaimTime,
              spinsUsedToday, lastSpinResetDate, resultText, requests>>
storeVars == <<player, playersAll, leaderboard, lastResetWeek>>
\* The names and the responses are followed under SpecStore and SpecRank
\* only; the session specifications leave both as they start.  The handler
\* invocations are taken apart into their store calls under SpecRace and
\* SpecTabs only; everywhere else a handler is one step.
apiVars == <<username, reply, calls>>
pageVars == <<board, lastWeeklyReset>>

\* ------------------------------------------------------------ pure helpers
Max(a, b) == IF a >= b THEN a ELSE b
Min(a, b) == IF a <= b THEN a ELSE b

\* getUTCDateString(): the UTC calendar day of an instant
DayOf(t) == t \div TicksPerDay
getUTCDateString == DayOf(now)

\* Day 0 is 1 January 1970, a Thursday.
\* now.getUTCDay(): 0 is Sunday, 6 is Saturday
getUTCDay == (getUTCDateString + 4) % 7

\* getWeekNumber(new Date()): the ISO week, which begins on Monday
getWeekNumber == ((getUTCDateString + 3) \div 7) + 1

\* result.includes('x') / result.includes('%')
IncludesX(label) == label \in {"2x", "3x", "0.5x", "-0.6x"}
IncludesPct(label) == label \in {"-20%", "30%", "-50%", "-80%"}

\* parseFloat(result) of a multiplier label, in tenths
ParseTenths(label) ==
  CASE label = "2x" -> 20
    [] label = "3x" -> 30
    [] label = "0.5x" -> 5
    [] label = "-0.6x" -> -6
    [] OTHER -> 0

\* parseFloat(result) of a percentage label
ParsePercent(label) ==
  CASE label = "-20%" -> -20
    [] label = "30%" -> 30
    [] label = "-50%" -> -50
    [] label = "-80%" -> -80
    [] OTHER -> 0

Abs(x) == IF x < 0 THEN -x ELSE x

\* Math.floor in place of Math.round
MathRound_Floor(num, den) == num \div den

\* Math.round of num/den (den > 0): floor(x + 1/2)
MathRound(num, den) == (2 * num + den) \div (2 * den)

\* applyResult storing the rounded change instead of the new balance
applyResult_Delta(credits, label, countToLeaderboard) ==
  IF ~countToLeaderboard THEN credits
  ELSE IF IncludesX(label) THEN
    LET multiplier == ParseTenths(label)
        pointsChange == IF multiplier > 0 THEN credits * multiplier
                        ELSE -(credits * Abs(multiplier))
    IN MathRound(pointsChange, 10)
  ELSE IF IncludesPct(label) THEN
    LET percentage == ParsePercent(label)
        pointsChange == IF percentage > 0 THEN credits * percentage
                        ELSE -(credits * Abs(percentage))
    IN MathRound(pointsChange, 100)
  ELSE credits

\* applyResult: the new playerCredits
applyResult(credits, label, countToLeaderboard) ==
  IF ~countToLeaderboard THEN credits
  ELSE IF IncludesX(label) THEN
    LET multiplier == ParseTenths(label)
        pointsChange == IF multiplier > 0 THEN credits * multiplier
                        ELSE -(credits * Abs(multiplier))
    IN Max(0, MathRound(credits * 10 + pointsChange, 10))
  ELSE IF IncludesPct(label) THEN
    LET percentage == ParsePercent(label)
        pointsChange == IF percentage > 0 THEN credits * percentage
                        ELSE -(credits * Abs(percentage))
    IN Max(0, MathRound(credits * 100 + pointsChange, 100))
  ELSE Max(0, credits)

\* the index wrapped around the wheel instead of clamped
segmentIndex_Wraps(result) == (result - 1) % wheelSections

\* segmentIndex (0-based) of a raw result
segmentIndex(result) == Max(0, Min(result - 1, wheelSections - 1))

\* ------------------------------------------------- session state as a value
\* The fields a synchronous block of game.ts reads and writes; an action
\* threads a record through the calls of the block and commits the result.
Cur == [wallet |-> wallet, isSpinning |-> isSpinning,
        playerCredits |-> playerCredits, lastClaimTime |-> lastClaimTime,
        spinsUsedToday |-> spinsUsedToday,
        lastSpinResetDate |-> lastSpinResetDate,
        resultText |-> resultText, requests |-> requests]

Commit(m) ==
  /\ wallet' = m.wallet
  /\ isSpinning' = m.isSpinning
  /\ playerCredits' = m.playerCredits
  /\ lastClaimTime' = m.lastClaimTime
  /\ spinsUsedToday' = m.spinsUsedToday
  /\ lastSpinResetDate' = m.lastSpinResetDate
  /\ resultText' = m.resultText
  /\ requests' = m.requests
  /\ Cardinality(m.requests) <= MaxPending

\* the content of .result-text: a message, the wheel label it names (if
\* any) and whether an explorer link is appended
Text(message) == [text |-> message, label |-> "", link |-> FALSE]

showError(m, message) == [m EXCEPT !.resultText = Text(message)]
showSuccess(m, message) == [m EXCEPT !.resultText = Text(message)]

\* saveGameData without the test of the wallet
saveGameData_Unguarded(m, t) ==
  [m EXCEPT !.requests = @ \cup
     {[wallet |-> m.wallet, credits |-> m.playerCredits,
       spinsLeft |-> spinsPerDay - m.spinsUsedToday,
       claimTime |-> m.lastClaimTime, task |-> t, live |-> TRUE]}]

\* saveGameData up to its await: returns at once when the wallet is not
\* connected, otherwise snapshots the fields and sends POST /api/player.
\* t is the suspended invocation awaiting the response, 0 when the caller
\* does not await it; live tells that the page that sent it is still open.
saveGameData(m, t) ==
  IF m.wallet = NoWallet THEN m
  ELSE [m EXCEPT !.requests = @ \cup
          {[wallet |-> m.wallet, credits |-> m.playerCredits,
            spinsLeft |-> spinsPerDay - m.spinsUsedToday,
            claimTime |-> m.lastClaimTime, task |-> t, live |-> TRUE]}]

\* the day-rollover block without the assignment of today's date
RolloverAndSave_KeepsDate(m) ==
  IF m.lastSpinResetDate # getUTCDateString
  THEN saveGameData([m EXCEPT !.spinsUsedToday = 0], 0)
  ELSE m

\* the day-rollover block shared by checkSpinLimit and updateDisplay
RolloverAndSave(m) ==
  IF m.lastSpinResetDate # getUTCDateString
  THEN saveGameData([m EXCEPT !.spinsUsedToday = 0,
                              !.lastSpinResetDate = getUTCDateString], 0)
  ELSE m

updateDisplay(m) == RolloverAndSave(m)

\* checkSpinLimit saving on every call
checkSpinLimit_AlwaysSaves(m) ==
  saveGameData(updateDisplay(RolloverAndSave(m)), 0)

checkSpinLimit(m) == updateDisplay(RolloverAndSave(m))

\* canClaim with > in place of >=
canClaim_Strict(m) ==
  IF m.lastClaimTime = NoTime THEN TRUE
  ELSE now - m.lastClaimTime > cooldownPeriod

canClaim(m) ==
  IF m.lastClaimTime = NoTime THEN TRUE
  ELSE now - m.lastClaimTime >= cooldownPeriod

\* handleArciumSpinResult applying the segment effect a second time
handleArciumSpinResult_AppliesTwice(m, result, transactionSignature, countToLeaderboard) ==
  LET currentResult == wheelValues[segmentIndex(result) + 1]
      m1 == IF countToLeaderboard
            THEN LET r == IF m.lastSpinResetDate # getUTCDateString
                          THEN [m EXCEPT !.spinsUsedToday = 0,
                                         !.lastSpinResetDate = getUTCDateString]
                          ELSE m
                 IN [r EXCEPT !.spinsUsedToday = @ + 1]
            ELSE m
      m2 == IF countToLeaderboard
            THEN updateDisplay([m1 EXCEPT !.playerCredits =
                   applyResult(applyResult(@, currentResult,
                                           countToLeaderboard),
                               currentResult, countToLeaderboard)])
            ELSE m1
      m3 == [m2 EXCEPT !.resultText = [text |-> "You got",
                                       label |-> currentResult,
                                       link |-> transactionSignature],
                       !.isSpinning = FALSE]
      m4 == checkSpinLimit(m3)
  IN IF countToLeaderboard THEN saveGameData(m4, 0) ELSE m4

\* handleArciumSpinResult saving only outcomes that carry a signature
handleArciumSpinResult_SavesOnlyProven(m, result, transactionSignature, countToLeaderboard) ==
  LET currentResult == wheelValues[segmentIndex(result) + 1]
      m1 == IF countToLeaderboard
            THEN LET r == IF m.lastSpinResetDate # getUTCDateString
                          THEN [m EXCEPT !.spinsUsedToday = 0,
                                         !.lastSpinResetDate = getUTCDateString]
                          ELSE m
                 IN [r EXCEPT !.spinsUsedToday = @ + 1]
            ELSE m
      m2 == IF countToLeaderboard
            THEN updateDisplay([m1 EXCEPT !.playerCredits =
                   applyResult(@, currentResult, countToLeaderboard)])
            ELSE m1
      m3 == [m2 EXCEPT !.resultText = [text |-> "You got",
                                       label |-> currentResult,
                                       link |-> transactionSignature],
                       !.isSpinning = FALSE]
      m4 == checkSpinLimit(m3)
  IN IF countToLeaderboard /\ transactionSignature
     THEN saveGameData(m4, 0) ELSE m4

\* handleArciumSpinResult without the assignment isSpinning = false
handleArciumSpinResult_KeepsSpinning(m, result, transactionSignature, countToLeaderboard) ==
  LET currentResult == wheelValues[segmentIndex(result) + 1]
      m1 == IF countToLeaderboard
            THEN LET r == IF m.lastSpinResetDate # getUTCDateString
                          THEN [m EXCEPT !.spinsUsedToday = 0,
                                         !.lastSpinResetDate = getUTCDateString]
                          ELSE m
                 IN [r EXCEPT !.spinsUsedToday = @ + 1]
            ELSE m
      m2 == IF countToLeaderboard
            THEN updateDisplay([m1 EXCEPT !.playerCredits =
                   applyResult(@, currentResult, countToLeaderboard)])
            ELSE m1
      m3 == [m2 EXCEPT !.resultText = [text |-> "You got",
                                       label |-> currentResult,
                                       link |-> transactionSignature]]
      m4 == checkSpinLimit(m3)
  IN IF countToLeaderboard THEN saveGameData(m4, 0) ELSE m4

\* handleArciumSpinResult up to its first await
handleArciumSpinResult(m, result, transactionSignature, countToLeaderboard) ==
  LET currentResult == wheelValues[segmentIndex(result) + 1]
      m1 == IF countToLeaderboard
            THEN LET r == IF m.lastSpinResetDate # getUTCDateString
                          THEN [m EXCEPT !.spinsUsedToday = 0,
                                         !.lastSpinResetDate = getUTCDateString]
                          ELSE m
                 IN [r EXCEPT !.spinsUsedToday = @ + 1]
            ELSE m
      m2 == IF countToLeaderboard
            THEN updateDisplay([m1 EXCEPT !.playerCredits =
                   applyResult(@, currentResult, countToLeaderboard)])
            ELSE m1
      m3 == [m2 EXCEPT !.resultText = [text |-> "You got",
                                       label |-> currentResult,
                                       link |-> transactionSignature],
                       !.isSpinning = FALSE]
      m4 == checkSpinLimit(m3)
  IN IF countToLeaderboard THEN saveGameData(m4, 0) ELSE m4

\* ------------------------------------------------------------------- tasks
IdleTask == [pc |-> "idle", daily |-> FALSE, w |-> NoWallet,
             credits |-> 0, spinsLeft |-> 0, claimTime |-> NoTime]

HasFree == \E t \in Slots : tasks[t].pc = "idle"
FreeSlot == CHOOSE t \in Slots :
              /\ tasks[t].pc = "idle"
              /\ \A u \in Slots : u < t => tasks[u].pc # "idle"

Spawn(t, pc, daily) == [tasks EXCEPT ![t] = [IdleTask EXCEPT !.pc = pc,
                                                             !.daily = daily]]
Finish(t) == [tasks EXCEPT ![t] = IdleTask]

\* ------------------------------------------------------------ player API
DefaultPlayer == [credits |-> 0, spinsLeft |-> 5, claimTime |-> NoTime,
                  lastSpinResetDate |-> getUTCDateString]

\* GET /api/player: the record returned, created or day-reset as needed
GetPlayer(w) ==
  IF w \notin DOMAIN player THEN DefaultPlayer
  ELSE IF player[w].lastSpinResetDate # getUTCDateString
       THEN [player[w] EXCEPT !.spinsLeft = 5,
                              !.lastSpinResetDate = getUTCDateString]
       ELSE player[w]

\* POST /api/player without the new-day override of spinsLeft
PostPlayer_TrustsClient(req) ==
  [credits |-> req.credits, spinsLeft |-> req.spinsLeft,
   claimTime |-> req.claimTime, lastSpinResetDate |-> getUTCDateString]

\* POST /api/player: the record stored for the request body
PostPlayer(req) ==
  LET existing == IF req.wallet \in DOMAIN player THEN player[req.wallet]
                  ELSE DefaultPlayer
      isNewDay == existing.lastSpinResetDate # getUTCDateString
      updated == [credits |-> req.credits, spinsLeft |-> req.spinsLeft,
                  claimTime |-> req.claimTime,
                  lastSpinResetDate |-> getUTCDateString]
  IN IF isNewDay THEN [updated EXCEPT !.spinsLeft = 5] ELSE updated

\* function f with the value at key k set to v
Put(f, k, v) == [x \in DOMAIN f \cup {k} |-> IF x = k THEN v ELSE f[x]]

\* ------------------------------------------------------------ the store
\* A name or an address is the sequence of its characters.
Address(w) ==
  CASE w = "W1" -> <<"W", "1">>
    [] w = "W2" -> <<"W", "2">>
    [] OTHER -> <<"W", "3">>

\* s.slice(0, n)
slice(s, n) == SubSeq(s, 1, Min(n, Len(s)))

\* `Player_${wallet.slice(0, 8)}`
DefaultUsername(w) ==
  <<"P", "l", "a", "y", "e", "r", "_">> \o slice(Address(w), 8)

NoNames == [w \in {} |-> <<>>]
\* what is known of the handler that ran last: the query it was sent, its
\* response, the writes it sent and the wallets whose store calls threw
\* inside a loop
NoQuery == [limit |-> 0, search |-> <<>>]
NoReply == [status |-> 0, message |-> "", player |-> <<>>,
            leaderboard |-> <<>>, writes |-> <<>>, failed |-> {},
            query |-> NoQuery]

\* the handler invocations that are between two store calls: the request
\* (op, w, body), the next store call (pc), the writes still to send (cmds)
\* and, for the sweep, the week it computed and the players still to visit
CallIds == 1..MaxCalls
NoBody == [username |-> <<>>, credits |-> 0, spinsLeft |-> 0,
           claimTime |-> NoTime]
NoCall == [op |-> "none", pc |-> "idle", w |-> "", body |-> NoBody,
           cmds |-> <<>>, todo |-> <<>>, week |-> 0]
NoCalls == [k \in CallIds |-> NoCall]

\* the five keys of the store as one value
Store == [player |-> player, username |-> username,
          playersAll |-> playersAll, leaderboard |-> leaderboard,
          lastResetWeek |-> lastResetWeek]

\* the writes a handler sends to redis
RedisSet(w, rec, name) ==
  [op |-> "set", w |-> w, rec |-> rec, name |-> name, n |-> 0]
RedisSAdd(w) == [op |-> "sadd", w |-> w, rec |-> <<>>, name |-> <<>>, n |-> 0]
RedisZAdd(w, score) ==
  [op |-> "zadd", w |-> w, rec |-> <<>>, name |-> <<>>, n |-> score]
RedisDel == [op |-> "del", w |-> "", rec |-> <<>>, name |-> <<>>, n |-> 0]
RedisSetWeek(week) ==
  [op |-> "setWeek", w |-> "", rec |-> <<>>, name |-> <<>>, n |-> week]

\* one write applied to the store S
Write(S, c) ==
  CASE c.op = "set" -> [S EXCEPT !.player = Put(@, c.w, c.rec),
                                 !.username = Put(@, c.w, c.name)]
    [] c.op = "sadd" -> [S EXCEPT !.playersAll = @ \cup {c.w}]
    [] c.op = "zadd" -> [S EXCEPT !.leaderboard = Put(@, c.w, c.n)]
    [] c.op = "del" -> [S EXCEPT !.leaderboard = [w \in {} |-> 0]]
    [] c.op = "setWeek" -> [S EXCEPT !.lastResetWeek = c.n]

\* the first n writes of cmds applied in their order
RECURSIVE WriteAll(_, _, _)
WriteAll(S, cmds, n) ==
  IF n = 0 THEN S ELSE Write(WriteAll(S, cmds, n - 1), cmds[n])

\* How a handler can end: every write is sent and the response is 200, or
\* the store call after the first n writes throws and the response is 500.
\* A handler that writes nothing can fail at its read.
Outcomes(cmds) ==
  {<<Len(cmds), TRUE>>}
    \cup {<<n, FALSE>> : n \in 0..(Len(cmds) - 1)}
    \cup (IF cmds = <<>> THEN {<<0, FALSE>>} ELSE {})

\* a handler ran: the writes it got through and its response
Serve(op, cmds, n, ok, answer) ==
  /\ LET S == WriteAll(Store, cmds, n)
     IN /\ player' = S.player
        /\ username' = S.username
        /\ playersAll' = S.playersAll
        /\ leaderboard' = S.leaderboard
        /\ lastResetWeek' = S.lastResetWeek
  /\ reply' = IF ok THEN [answer EXCEPT !.writes = cmds]
              ELSE [NoReply EXCEPT !.status = 500,
                                   !.writes = SubSeq(cmds, 1, n)]
  /\ lastOp' = op
  /\ UNCHANGED <<calls, pageVars, poll, now, sessVars, tasks, settledToday>>

\* the record as the API returns it
PlayerData(w, rec, name) ==
  [username |-> name, credits |-> rec.credits, spinsLeft |-> rec.spinsLeft,
   claimTime |-> rec.claimTime, walletAddress |-> w,
   lastSpinResetDate |-> rec.lastSpinResetDate]

\* the orders in which smembers can return the set S
Orders(S) ==
  {s \in [1..Cardinality(S) -> S] : \A w \in S : \E i \in DOMAIN s : s[i] = w}

\* --------------------------------------------------------- the ranking
\* the members a client can post to the ranking: the wallets and one
\* address that has no player record
Members == Wallets \cup {"W3"}

\* redis orders the members of a sorted set by score and members of equal
\* score by their bytes
MemberOrder == <<"W1", "W2", "W3">>
Position(w) == CHOOSE i \in DOMAIN MemberOrder : MemberOrder[i] = w
Before(lb, a, b) ==
  lb[a] < lb[b] \/ (lb[a] = lb[b] /\ Position(a) < Position(b))
Sorted(lb) ==
  CHOOSE s \in Orders(DOMAIN lb) :
    \A i, j \in DOMAIN s : i < j => Before(lb, s[i], s[j])

\* redis.zrange(key, start, end) for start >= 0: ranks start..end, both
\* counted from 0
zrange(lb, start, end) ==
  SubSeq(Sorted(lb), start + 1, Min(end, Cardinality(DOMAIN lb) - 1) + 1)

\* a ranking read that leaves the members in the order of zrange
reverse_Keeps(s) == s

\* [...members].reverse()
reverse(s) == [i \in 1..Len(s) |-> s[Len(s) + 1 - i]]

\* the limit of loadAndDisplayLeaderboard and the one of searchLeaderboard
topLimit == 10
searchLimit == 100

\* GET /api/leaderboard: the list returned for the query; the handler reads
\* query.limit and nothing else of the query
LeaderboardEntries(query) ==
  LET limit == query.limit
      totalCount == Cardinality(DOMAIN leaderboard)
  IN IF totalCount = 0 THEN <<>>
     ELSE LET start == Max(0, totalCount - limit)
              end == totalCount - 1
              reversedMembers == reverse(zrange(leaderboard, start, end))
          IN [index \in 1..Len(reversedMembers) |->
                LET member == reversedMembers[index]
                IN [walletAddress |-> member,
                    username |-> IF member \in DOMAIN username
                                      /\ username[member] # <<>>
                                 THEN username[member]
                                 ELSE DefaultUsername(member),
                    credits |-> leaderboard[member],
                    rank |-> index]]

\* GET /api/leaderboard with the query
LeaderboardGet(query) ==
  \E o \in Outcomes(<<>>) :
    Serve("leaderboardGet", <<>>, o[1], o[2],
          [NoReply EXCEPT !.status = 200, !.query = query,
                          !.leaderboard = LeaderboardEntries(query)])

\* POST /api/leaderboard with walletAddress and credits
LeaderboardPost(w, credits) ==
  LET cmds == <<RedisZAdd(w, credits)>>
  IN \E o \in Outcomes(cmds) :
       Serve("leaderboardPost", cmds, o[1], o[2],
             [NoReply EXCEPT !.status = 200])

\* POST /api/leaderboard/reset
LeaderboardReset ==
  LET cmds == <<RedisDel>>
  IN \E o \in Outcomes(cmds) :
       Serve("leaderboardReset", cmds, o[1], o[2],
             [NoReply EXCEPT !.status = 200,
                             !.message = "Leaderboard reset"])

\* loadAndDisplayLeaderboard asks for the top ten; the limits of Limits
\* stand for any other client of the API
LoadLeaderboard(n) == LeaderboardGet([limit |-> n, search |-> <<>>])

\* searchLeaderboard(searchTerm): an empty term loads the top ten
SearchLeaderboard(term) ==
  IF term = <<>> THEN LoadLeaderboard(topLimit)
  ELSE LeaderboardGet([limit |-> searchLimit, search |-> term])

\* the GET handler that writes the record back whatever its date
GetWrites_AlwaysWrites(w) ==
  IF w \notin DOMAIN player
  THEN <<RedisSet(w, DefaultPlayer, DefaultUsername(w)), RedisSAdd(w)>>
  ELSE <<RedisSet(w, GetPlayer(w), username[w])>>

\* GET /api/player: the writes of the handler
GetWrites(w) ==
  IF w \notin DOMAIN player
  THEN <<RedisSet(w, DefaultPlayer, DefaultUsername(w)), RedisSAdd(w)>>
  ELSE IF player[w].lastSpinResetDate # getUTCDateString
       THEN <<RedisSet(w, GetPlayer(w), username[w])>>
       ELSE <<>>

\* GET /api/player?walletAddress=w
PlayerGet(w) ==
  LET cmds == GetWrites(w)
      name == IF w \in DOMAIN player THEN username[w] ELSE DefaultUsername(w)
  IN \E o \in Outcomes(cmds) :
       Serve("playerGet", cmds, o[1], o[2],
             [NoReply EXCEPT !.status = 200,
                             !.player = PlayerData(w, GetPlayer(w), name)])

\* the POST handler that adds the credits to the score it finds
PostWrites_Increments(w, body) ==
  LET updated == PostPlayer([wallet |-> w, credits |-> body.credits,
                             spinsLeft |-> body.spinsLeft,
                             claimTime |-> body.claimTime])
      score == IF w \in DOMAIN leaderboard THEN leaderboard[w] ELSE 0
  IN <<RedisSet(w, updated, body.username), RedisSAdd(w)>>
       \o (IF updated.credits >= 0
           THEN <<RedisZAdd(w, score + updated.credits)>> ELSE <<>>)

\* POST /api/player: the writes of the handler for the body the game sends
PostWrites(w, body) ==
  LET updated == PostPlayer([wallet |-> w, credits |-> body.credits,
                             spinsLeft |-> body.spinsLeft,
                             claimTime |-> body.claimTime])
  IN <<RedisSet(w, updated, body.username), RedisSAdd(w)>>
       \o (IF updated.credits >= 0 THEN <<RedisZAdd(w, updated.credits)>>
           ELSE <<>>)

\* POST /api/player with walletAddress w and the fields of body
PlayerPost(w, body) ==
  LET cmds == PostWrites(w, body)
  IN \E o \in Outcomes(cmds) :
       Serve("playerPost", cmds, o[1], o[2],
             [NoReply EXCEPT !.status = 200,
                             !.player = PlayerData(w, cmds[1].rec,
                                                   body.username)])

\* ---------------------------------------------------------------- polling
\* awaitComputationFinalization(provider, offset, programId, commitment,
\* maxRetries, retryDelay): i is the loop index, checks counts the calls of
\* getAccountInfo made, found tells that the last one returned the account;
\* event is the segment the computation put on chain and result the number
\* fetchSpinResult returned, 0 standing for none
NoPoll == [pc |-> "none", maxRetries |-> 0, i |-> 0, checks |-> 0,
           found |-> FALSE, event |-> 0, result |-> 0]

\* awaitComputationFinalization with <= in the loop test
LoopTest_OffByOne(p) ==
  IF p.i <= p.maxRetries THEN [p EXCEPT !.pc = "check"]
  ELSE [p EXCEPT !.pc = "timeout"]

\* the for statement: test i < maxRetries, run the body or fall out to the
\* throw after the loop
LoopTest(p) ==
  IF p.i < p.maxRetries THEN [p EXCEPT !.pc = "check"]
  ELSE [p EXCEPT !.pc = "timeout"]

\* getAccountInfo returned the account: return 'finalized'
CheckFound ==
  /\ poll.pc = "check"
  /\ poll' = [poll EXCEPT !.pc = "finalized", !.checks = @ + 1,
                          !.found = TRUE]
  /\ lastOp' = "checkFound"
  /\ UNCHANGED <<apiVars, pageVars, now, sessVars, tasks, storeVars, settledToday>>

\* the loop going on to its next check without the delay
CheckAbsent_NoDelay ==
  /\ poll.pc = "check"
  /\ poll' = LoopTest([poll EXCEPT !.i = @ + 1, !.checks = @ + 1])
  /\ lastOp' = "checkAbsent"
  /\ UNCHANGED <<apiVars, pageVars, now, sessVars, tasks, storeVars, settledToday>>

\* getAccountInfo returned null: the retry delay is awaited
CheckAbsent ==
  /\ poll.pc = "check"
  /\ poll' = [poll EXCEPT !.pc = "sleep", !.checks = @ + 1]
  /\ lastOp' = "checkAbsent"
  /\ UNCHANGED <<apiVars, pageVars, now, sessVars, tasks, storeVars, settledToday>>

\* getAccountInfo threw: the catch logs it and the loop goes on at once
CheckFaults ==
  /\ poll.pc = "check"
  /\ poll' = LoopTest([poll EXCEPT !.i = @ + 1, !.checks = @ + 1])
  /\ lastOp' = "checkFaults"
  /\ UNCHANGED <<apiVars, pageVars, now, sessVars, tasks, storeVars, settledToday>>

\* the retry delay elapsed
DelayElapsed ==
  /\ poll.pc = "sleep"
  /\ poll' = LoopTest([poll EXCEPT !.i = @ + 1])
  /\ lastOp' = "delayElapsed"
  /\ UNCHANGED <<apiVars, pageVars, now, sessVars, tasks, storeVars, settledToday>>

\* ------------------------------------------------------------------ clock
Tick ==
  /\ now < LastTick
  /\ now' = now + 1
  /\ settledToday' = IF DayOf(now + 1) # DayOf(now)
                     THEN [w \in Wallets |-> 0] ELSE settledToday
  /\ lastOp' = "tick"
  /\ UNCHANGED <<apiVars, pageVars, poll, sessVars, tasks, storeVars>>

\* ------------------------------------------------------ wallet integration
\* wallet-connected with a public key: initializePlayerAccount is started
WalletConnected(w) ==
  /\ HasFree
  /\ wallet' = w
  /\ tasks' = [tasks EXCEPT ![FreeSlot] =
                 [IdleTask EXCEPT !.pc = "fetch", !.w = w]]
  /\ lastOp' = "connect"
  /\ UNCHANGED <<apiVars, pageVars, poll, now, isSpinning, playerCredits, lastClaimTime,
                 spinsUsedToday, lastSpinResetDate, resultText, requests,
                 storeVars, settledToday>>

\* wallet-connected without a public key
WalletDisconnected ==
  /\ Commit(saveGameData(showError([Cur EXCEPT !.wallet = NoWallet,
                                               !.playerCredits = 0],
                                   "Wallet disconnected"), 0))
  /\ lastOp' = "disconnect"
  /\ UNCHANGED <<apiVars, pageVars, poll, now, tasks, storeVars, settledToday>>

\* the server answers the GET of initializePlayerAccount
ServerGet(t) ==
  /\ tasks[t].pc = "fetch"
  /\ LET rec == GetPlayer(tasks[t].w)
     IN /\ player' = Put(player, tasks[t].w, rec)
        /\ playersAll' = IF tasks[t].w \in DOMAIN player THEN playersAll
                         ELSE playersAll \cup {tasks[t].w}
        /\ tasks' = [tasks EXCEPT ![t].pc = "fetched",
                                  ![t].credits = rec.credits,
                                  ![t].spinsLeft = rec.spinsLeft,
                                  ![t].claimTime = rec.claimTime]
  /\ lastOp' = "get"
  /\ UNCHANGED <<apiVars, pageVars, poll, now, sessVars, leaderboard, lastResetWeek, settledToday>>

\* the GET fails: no store, a store fault or a network fault
ServerGetFail(t) ==
  /\ tasks[t].pc = "fetch"
  /\ tasks' = [tasks EXCEPT ![t].pc = "fetchfail"]
  /\ lastOp' = "getFail"
  /\ UNCHANGED <<apiVars, pageVars, poll, now, sessVars, storeVars, settledToday>>

\* what follows initializePlayerAccount: the .then of the connect handler
InitThen(m) == showSuccess(m, "Wallet connected successfully!")

\* initializePlayerAccount after the response: data.player is applied
InitLoaded(t) ==
  /\ tasks[t].pc = "fetched"
  /\ LET m1 == [Cur EXCEPT !.playerCredits = tasks[t].credits,
                           !.lastClaimTime = tasks[t].claimTime,
                           !.spinsUsedToday = spinsPerDay - tasks[t].spinsLeft]
     IN IF m1.lastSpinResetDate # getUTCDateString /\ m1.wallet # NoWallet
        THEN /\ Commit(saveGameData(
                  [m1 EXCEPT !.spinsUsedToday = 0,
                             !.lastSpinResetDate = getUTCDateString], t))
             /\ tasks' = [tasks EXCEPT ![t].pc = "i_save"]
        ELSE /\ Commit(InitThen(checkSpinLimit(updateDisplay(
                  [m1 EXCEPT !.spinsUsedToday =
                               IF m1.lastSpinResetDate # getUTCDateString
                               THEN 0 ELSE @,
                             !.lastSpinResetDate = getUTCDateString]))))
             /\ tasks' = Finish(t)
  /\ lastOp' = "initLoaded"
  /\ UNCHANGED <<apiVars, pageVars, poll, now, storeVars, settledToday>>

\* initializePlayerAccount after its rollover save returned
InitSaved(t) ==
  /\ tasks[t].pc = "i_resume"
  /\ Commit(InitThen(checkSpinLimit(updateDisplay(Cur))))
  /\ tasks' = Finish(t)
  /\ lastOp' = "initSaved"
  /\ UNCHANGED <<apiVars, pageVars, poll, now, storeVars, settledToday>>

\* initializePlayerAccount when the fetch failed: the catch block
InitFallback(t) ==
  /\ tasks[t].pc = "fetchfail"
  /\ Commit(InitThen(checkSpinLimit(updateDisplay(
        [Cur EXCEPT !.playerCredits = 0, !.lastClaimTime = NoTime,
                    !.spinsUsedToday = 0, !.lastSpinResetDate = NoDate]))))
  /\ tasks' = Finish(t)
  /\ lastOp' = "initFallback"
  /\ UNCHANGED <<apiVars, pageVars, poll, now, storeVars, settledToday>>

\* -------------------------------------------------------------- daily spin
\* spinWheelDaily from the limit check on (lines 495-515)
\* the limit check with > in place of >=
DailyLimitCheck_OffByOne(m) ==
  IF m.spinsUsedToday > spinsPerDay
  THEN [refused |-> TRUE,
        m |-> checkSpinLimit(showError(m, "Daily spin limit reached!"))]
  ELSE [refused |-> FALSE,
        m |-> [m EXCEPT !.isSpinning = TRUE,
                        !.resultText = Text("Spinning the wheel (Daily)...")]]

\* refused tells which way the check went, m is the session it leaves
DailyLimitCheck(m) ==
  IF m.spinsUsedToday >= spinsPerDay
  THEN [refused |-> TRUE,
        m |-> checkSpinLimit(showError(m, "Daily spin limit reached!"))]
  ELSE [refused |-> FALSE,
        m |-> [m EXCEPT !.isSpinning = TRUE,
                        !.resultText = Text("Spinning the wheel (Daily)...")]]

\* an invocation of spinWheelDaily, up to its first await
SpinWheelDaily ==
  /\ HasFree
  /\ playerCredits <= MaxCredits
  /\ IF isSpinning
     THEN /\ lastOp' = "dailyIgnored"
          /\ UNCHANGED <<sessVars, tasks>>
     ELSE IF wallet = NoWallet
     THEN /\ Commit(showError(Cur, "Please connect your wallet"))
          /\ lastOp' = "dailyNoWallet"
          /\ UNCHANGED tasks
     ELSE IF lastSpinResetDate # getUTCDateString
     THEN /\ Commit(saveGameData(
               [Cur EXCEPT !.spinsUsedToday = 0,
                           !.lastSpinResetDate = getUTCDateString], FreeSlot))
          /\ tasks' = Spawn(FreeSlot, "d_save", TRUE)
          /\ lastOp' = "dailyRollover"
     ELSE LET r == DailyLimitCheck(Cur)
          IN /\ Commit(r.m)
             /\ tasks' = IF r.refused THEN tasks
                         ELSE Spawn(FreeSlot, "computing", TRUE)
             /\ lastOp' = IF r.refused THEN "dailyRefused"
                          ELSE "dailyStarted"
  /\ UNCHANGED <<apiVars, pageVars, poll, now, storeVars, settledToday>>

\* spinWheelDaily resumes after its rollover save returned
DailyResume(t) ==
  /\ tasks[t].pc = "d_resume"
  /\ LET r == DailyLimitCheck(Cur)
     IN /\ Commit(r.m)
        /\ tasks' = IF r.refused THEN Finish(t)
                    ELSE Spawn(t, "computing", TRUE)
        /\ lastOp' = IF r.refused THEN "dailyRefused" ELSE "dailyStarted"
  /\ UNCHANGED <<apiVars, pageVars, poll, now, storeVars, settledToday>>

\* an invocation of spinWheelUnlimited, up to its first await
SpinWheelUnlimited ==
  /\ HasFree
  /\ IF isSpinning
     THEN /\ lastOp' = "practiceIgnored"
          /\ UNCHANGED <<sessVars, tasks>>
     ELSE IF wallet = NoWallet
     THEN /\ Commit(showError(Cur, "Please connect your wallet"))
          /\ lastOp' = "practiceNoWallet"
          /\ UNCHANGED tasks
     ELSE /\ Commit([Cur EXCEPT !.isSpinning = TRUE,
                       !.resultText = Text("Spinning the wheel (Practice)...")])
          /\ tasks' = Spawn(FreeSlot, "computing", FALSE)
          /\ lastOp' = "practiceStarted"
  /\ UNCHANGED <<apiVars, pageVars, poll, now, storeVars, settledToday>>

\* the history count of settled daily spins of the connected wallet
CountSettled(daily) ==
  IF daily /\ wallet # NoWallet
  THEN [settledToday EXCEPT ![wallet] = @ + 1]
  ELSE settledToday

CanSettle(daily) ==
  daily /\ wallet # NoWallet => settledToday[wallet] < MaxSettled

\* spinWheelWithArcium: submitSpinComputation returned a result drawn
\* from the set results
SpinFinalizedWith(t, results) ==
  /\ tasks[t].pc = "computing"
  /\ CanSettle(tasks[t].daily)
  /\ \E result \in results :
       Commit(handleArciumSpinResult(Cur, result, TRUE, tasks[t].daily))
  /\ settledToday' = CountSettled(tasks[t].daily)
  /\ tasks' = Finish(t)
  /\ lastOp' = IF tasks[t].daily THEN "settledDaily" ELSE "settledPractice"
  /\ UNCHANGED <<apiVars, pageVars, poll, now, storeVars>>

SpinFinalized(t) ==
  SpinFinalizedWith(t, IF tasks[t].daily THEN DailyRaw ELSE PracticeRaw)

\* getRandomSegment(): Math.floor(Math.random() * 8) + 1
getRandomSegment == 1..8

\* fetchSpinResult(signature): the numbers it can return when the
\* transaction has no metadata (hasMeta false), when its logs were read, and
\* when getTransaction threw
fetchSpinResult(event, hasMeta, threw) ==
  IF threw THEN getRandomSegment
  ELSE IF ~hasMeta THEN getRandomSegment
  ELSE getRandomSegment

\* submitSpinComputation after the finalization: fetchSpinResult is awaited
FetchSpinResult ==
  /\ poll.pc = "finalized"
  /\ \E hasMeta \in BOOLEAN, threw \in BOOLEAN :
       \E result \in fetchSpinResult(poll.event, hasMeta, threw) :
         poll' = [poll EXCEPT !.pc = "fetched", !.result = result]
  /\ lastOp' = "fetchSpinResult"
  /\ UNCHANGED <<apiVars, pageVars, now, sessVars, tasks, storeVars, settledToday>>

\* submitSpinComputation returned the fetched result to spinWheelWithArcium
SpinFetched(t) ==
  /\ poll.pc = "fetched"
  /\ SpinFinalizedWith(t, {poll.result})

\* the Errors spinWheelWithArcium can catch: the signer declined, a network
\* fault, the finalization timeout of the polling loop, and the missing
\* computation definition reported by initializeArciumComputation
Faults == {"UserRejected", "NetworkFault", "Timeout", "SetupIncomplete"}

\* the message the catch block of spinWheelWithArcium shows for a fault
SpinErrorText(fault) ==
  CASE fault = "UserRejected" -> "Transaction cancelled"
    [] fault = "NetworkFault" -> "Network error"
    [] fault = "Timeout" -> "Spin failed: Computation finalization timeout"
    [] fault = "SetupIncomplete" ->
         "Spin failed: Computation definition not found"

\* spinWheelWithArcium: an Error was thrown; its catch block ends the spin
\* the catch block without the assignment isSpinning = false
SpinFailedWith_KeepsSpinning(t, faults) ==
  /\ tasks[t].pc = "computing"
  /\ \E fault \in faults :
       Commit(updateDisplay(showError(Cur, SpinErrorText(fault))))
  /\ tasks' = Finish(t)
  /\ lastOp' = "spinFailed"
  /\ UNCHANGED <<apiVars, pageVars, poll, now, storeVars, settledToday>>

SpinFailedWith(t, faults) ==
  /\ tasks[t].pc = "computing"
  /\ \E fault \in faults :
       Commit(updateDisplay([showError(Cur, SpinErrorText(fault))
                               EXCEPT !.isSpinning = FALSE]))
  /\ tasks' = Finish(t)
  /\ lastOp' = "spinFailed"
  /\ UNCHANGED <<apiVars, pageVars, poll, now, storeVars, settledToday>>

SpinFailed(t) == SpinFailedWith(t, Faults)

\* spinWheelWithArcium: a value without a message was thrown, so the catch
\* block throws itself and the caller starts spinWheelDemo
SpinThrows(t) ==
  /\ tasks[t].pc = "computing"
  /\ tasks' = [tasks EXCEPT ![t].pc = "demo"]
  /\ resultText' = Text("Spinning (demo mode)...")
  /\ lastOp' = "demoStarted"
  /\ UNCHANGED <<apiVars, pageVars, poll, now, wallet, isSpinning, playerCredits, lastClaimTime,
                 spinsUsedToday, lastSpinResetDate, requests, storeVars,
                 settledToday>>

\* spinWheelDemo after its delay: a local random segment is reconciled
DemoSettles(t) ==
  /\ tasks[t].pc = "demo"
  /\ CanSettle(tasks[t].daily)
  /\ \E randomSegment \in (IF tasks[t].daily THEN DailyRaw
                           ELSE PracticeRaw) \cap (1..wheelSections) :
       Commit(handleArciumSpinResult(Cur, randomSegment, FALSE,
                                     tasks[t].daily))
  /\ settledToday' = CountSettled(tasks[t].daily)
  /\ tasks' = Finish(t)
  /\ lastOp' = IF tasks[t].daily THEN "settledDaily" ELSE "settledPractice"
  /\ UNCHANGED <<apiVars, pageVars, poll, now, storeVars>>

\* ------------------------------------------------------------------- claim
\* claimBasePoints leaving the update of lastClaimTime for after the save
ClaimBasePoints_StampsLater ==
  /\ HasFree
  /\ playerCredits <= MaxCredits
  /\ IF wallet = NoWallet
     THEN /\ Commit(showError(Cur, "Please connect your wallet"))
          /\ lastOp' = "claimNoWallet"
          /\ UNCHANGED tasks
     ELSE IF ~canClaim(Cur)
     THEN /\ Commit(showError(Cur, "You can claim again in"))
          /\ lastOp' = "claimRefused"
          /\ UNCHANGED tasks
     ELSE /\ Commit(saveGameData(updateDisplay(
               [Cur EXCEPT !.playerCredits = @ + basePoints]), FreeSlot))
          /\ tasks' = Spawn(FreeSlot, "c_save", FALSE)
          /\ lastOp' = "claimed"
  /\ UNCHANGED <<apiVars, pageVars, poll, now, storeVars, settledToday>>

\* an invocation of claimBasePoints, up to its first await
ClaimBasePoints ==
  /\ HasFree
  /\ playerCredits <= MaxCredits
  /\ IF wallet = NoWallet
     THEN /\ Commit(showError(Cur, "Please connect your wallet"))
          /\ lastOp' = "claimNoWallet"
          /\ UNCHANGED tasks
     ELSE IF ~canClaim(Cur)
     THEN /\ Commit(showError(Cur, "You can claim again in"))
          /\ lastOp' = "claimRefused"
          /\ UNCHANGED tasks
     ELSE /\ Commit(saveGameData(updateDisplay(
               [Cur EXCEPT !.playerCredits = @ + basePoints,
                           !.lastClaimTime = now]), FreeSlot))
          /\ tasks' = Spawn(FreeSlot, "c_save", FALSE)
          /\ lastOp' = "claimed"
  /\ UNCHANGED <<apiVars, pageVars, poll, now, storeVars, settledToday>>

\* claimBasePoints resumes after its save returned
ClaimResume(t) ==
  /\ tasks[t].pc = "c_resume"
  /\ Commit(showSuccess(Cur, "Claimed base credits!"))
  /\ tasks' = Finish(t)
  /\ lastOp' = "claimDone"
  /\ UNCHANGED <<apiVars, pageVars, poll, now, storeVars, settledToday>>

\* ------------------------------------------------------------------ timers
\* the one-minute interval timer: checkSpinLimit
TimerCheckSpinLimit ==
  /\ Commit(checkSpinLimit(Cur))
  /\ lastOp' = "timer"
  /\ UNCHANGED <<apiVars, pageVars, poll, now, tasks, storeVars, settledToday>>

\* saveUsername of the page: saveGameData
SaveUsername ==
  /\ wallet # NoWallet
  /\ Commit(saveGameData(Cur, 0))
  /\ lastOp' = "saveUsername"
  /\ UNCHANGED <<apiVars, pageVars, poll, now, tasks, storeVars, settledToday>>

\* ----------------------------------------------------- requests in flight
\* the awaiting invocation becomes runnable when its save has returned
Resumed(req) ==
  IF req.task \in Slots
  THEN [tasks EXCEPT ![req.task].pc =
          CASE @ = "d_save" -> "d_resume"
            [] @ = "i_save" -> "i_resume"
            [] @ = "c_save" -> "c_resume"
            [] OTHER -> @]
  ELSE tasks

\* POST /api/player handled by the server and answered with 200
PostOk(req) ==
  /\ req \in requests
  /\ LET updated == PostPlayer(req)
     IN /\ player' = Put(player, req.wallet, updated)
        /\ playersAll' = playersAll \cup {req.wallet}
        /\ leaderboard' = IF updated.credits >= 0
                          THEN Put(leaderboard, req.wallet, updated.credits)
                          ELSE leaderboard
  /\ requests' = requests \ {req}
  /\ tasks' = Resumed(req)
  /\ lastOp' = "post"
  /\ UNCHANGED <<apiVars, pageVars, poll, now, wallet, isSpinning, playerCredits, lastClaimTime,
                 spinsUsedToday, lastSpinResetDate, resultText,
                 lastResetWeek, settledToday>>

\* a failed save that puts the stored credits back into the session
PostFails_RollsBack(req) ==
  /\ req \in requests
  /\ requests' = requests \ {req}
  /\ tasks' = Resumed(req)
  /\ resultText' = IF ~req.live THEN resultText
                   ELSE Text("Failed to save progress. Please try again.")
  /\ playerCredits' = IF req.live /\ req.wallet \in DOMAIN player
                      THEN player[req.wallet].credits ELSE playerCredits
  /\ lastOp' = "postFail"
  /\ UNCHANGED <<apiVars, pageVars, poll, now, wallet, isSpinning, lastClaimTime,
                 spinsUsedToday, lastSpinResetDate, storeVars, settledToday>>

\* a failed save that is swallowed without a message
PostFails_Silent(req) ==
  /\ req \in requests
  /\ requests' = requests \ {req}
  /\ tasks' = Resumed(req)
  /\ lastOp' = "postFail"
  /\ UNCHANGED <<apiVars, pageVars, poll, now, wallet, isSpinning, playerCredits, lastClaimTime,
                 spinsUsedToday, lastSpinResetDate, resultText, storeVars,
                 settledToday>>

\* the POST fails (status 500 or a network fault): saveGameData shows the
\* error and swallows it
PostFails(req) ==
  /\ req \in requests
  /\ requests' = requests \ {req}
  /\ tasks' = Resumed(req)
  /\ resultText' = IF ~req.live THEN resultText
                   ELSE Text("Failed to save progress. Please try again.")
  /\ lastOp' = "postFail"
  /\ UNCHANGED <<apiVars, pageVars, poll, now, wallet, isSpinning, playerCredits, lastClaimTime,
                 spinsUsedToday, lastSpinResetDate, storeVars, settledToday>>

ServerPost == \E req \in requests : PostOk(req)

ServerPostFail == \E req \in requests : PostFails(req)

\* the weekly reset without the write of system:lastResetWeek
WeeklyReset_ForgetsWeek ==
  /\ IF lastResetWeek = getWeekNumber
     THEN /\ lastOp' = "weeklyResetSkipped"
          /\ UNCHANGED storeVars
     ELSE /\ player' = [w \in DOMAIN player |->
                          IF w \in playersAll
                          THEN [player[w] EXCEPT !.credits = 0]
                          ELSE player[w]]
          /\ leaderboard' = [w \in {} |-> 0]
          /\ lastResetWeek' = lastResetWeek
          /\ lastOp' = "weeklyReset"
          /\ UNCHANGED playersAll
  /\ UNCHANGED <<apiVars, pageVars, poll, now, sessVars, tasks, settledToday>>

\* POST /api/player/reset-weekly
WeeklyReset ==
  /\ IF lastResetWeek = getWeekNumber
     THEN /\ lastOp' = "weeklyResetSkipped"
          /\ UNCHANGED storeVars
     ELSE /\ player' = [w \in DOMAIN player |->
                          IF w \in playersAll
                          THEN [player[w] EXCEPT !.credits = 0]
                          ELSE player[w]]
          /\ leaderboard' = [w \in {} |-> 0]
          /\ lastResetWeek' = getWeekNumber
          /\ lastOp' = "weeklyReset"
          /\ UNCHANGED playersAll
  /\ UNCHANGED <<apiVars, pageVars, poll, now, sessVars, tasks, settledToday>>

\* the username in the record of w; a record whose name is not followed
\* reads as the default name
NameOf(w) == IF w \in DOMAIN username THEN username[w] ELSE DefaultUsername(w)

\* the sweep that resets the daily spins along with the credits
Zeroings_ResetsSpins(order, failing) ==
  LET kept == SelectSeq(order, LAMBDA w : w \in DOMAIN player /\ w \notin failing)
  IN [i \in 1..Len(kept) |->
        RedisSet(kept[i], [player[kept[i]] EXCEPT !.credits = 0,
                                                  !.spinsLeft = 5],
                 NameOf(kept[i]))]

\* the sweep whose loop ends at the first wallet whose store call throws
Zeroings_StopsAtFailure(order, failing) ==
  LET bad == {i \in 1..Len(order) : order[i] \in failing}
      kept == IF bad = {} THEN order
              ELSE SubSeq(order, 1, (CHOOSE i \in bad : \A j \in bad : i <= j) - 1)
  IN [i \in 1..Len(kept) |->
        RedisSet(kept[i], [player[kept[i]] EXCEPT !.credits = 0],
                 NameOf(kept[i]))]

\* the loop over the players: a wallet of failing has its read or its write
\* throw, which the catch inside the loop logs; a wallet with no record is
\* passed over
Zeroings(order, failing) ==
  LET kept == SelectSeq(order, LAMBDA w : w \in DOMAIN player /\ w \notin failing)
  IN [i \in 1..Len(kept) |->
        RedisSet(kept[i], [player[kept[i]] EXCEPT !.credits = 0],
                 NameOf(kept[i]))]

\* POST /api/player/reset-weekly: the writes of the handler
SweepWrites(order, failing) ==
  IF lastResetWeek = getWeekNumber THEN <<>>
  ELSE Zeroings(order, failing) \o <<RedisDel, RedisSetWeek(getWeekNumber)>>

\* The sweep ends with 200, or with 500 when the read of the week or of the
\* player set, the del or the write of the week throws.
SweepOutcomes(cmds) ==
  IF cmds = <<>> THEN {<<0, TRUE>>, <<0, FALSE>>}
  ELSE {<<Len(cmds), TRUE>>, <<0, FALSE>>, <<Len(cmds) - 2, FALSE>>,
        <<Len(cmds) - 1, FALSE>>}

\* POST /api/player/reset-weekly with the store calls of the wallets in
\* failing throwing
ResetWeekly(order, failing) ==
  LET cmds == SweepWrites(order, failing)
  IN \E o \in SweepOutcomes(cmds) :
       Serve(IF ~o[2] THEN "sweepFailed"
             ELSE IF cmds = <<>> THEN "sweepSkipped" ELSE "sweep",
             cmds, o[1], o[2],
             [NoReply EXCEPT
                !.status = 200,
                !.message = IF cmds = <<>> THEN "Already reset this week"
                            ELSE "Reset players",
                !.failed = IF cmds = <<>> THEN {} ELSE failing])

\* ------------------------------------- the handlers, store call by call
\* Every await of a redis call is a point at which the calls of another
\* invocation can be served.  An invocation is in progress from its first
\* store call to its last one.
InProgress(k) == calls[k].pc \in {"write", "finish", "smembers", "loop"}

\* the invocation k moves on; the store is written as S tells
CallStep(k, op, call, S) ==
  /\ calls' = [calls EXCEPT ![k] = call]
  /\ player' = S.player
  /\ username' = S.username
  /\ playersAll' = S.playersAll
  /\ leaderboard' = S.leaderboard
  /\ lastResetWeek' = S.lastResetWeek
  /\ lastOp' = op
  /\ UNCHANGED <<reply, pageVars, poll, now, sessVars, tasks, settledToday>>

\* GET or POST /api/player: redis.get(key); the writes that follow are
\* computed from the record read here
ReadPlayer(k, op, w, body) ==
  LET cmds == IF op = "playerGet" THEN GetWrites(w) ELSE PostWrites(w, body)
  IN CallStep(k, "storeRead",
              [NoCall EXCEPT !.op = op, !.w = w, !.body = body,
                             !.cmds = cmds,
                             !.pc = IF cmds = <<>> THEN "done" ELSE "write"],
              Store)

\* a request of any client is received and its handler makes its read
PlayerReads(k, op, w, body) ==
  /\ calls[k].pc \in {"idle", "done"}
  /\ ReadPlayer(k, op, w, body)

\* A second page of the same wallet.  Both pages loaded the record when
\* the session variables were as they are, and each page goes on from
\* there on its own: a daily spin of page k settles and saveGameData
\* sends the POST, whose body is what that page then holds.
TabSettles(k, raw) ==
  /\ calls[k].pc = "idle"
  /\ wallet # NoWallet
  /\ LET m == handleArciumSpinResult([Cur EXCEPT !.isSpinning = TRUE], raw,
                                     TRUE, TRUE)
     IN \E req \in m.requests :
          CallStep(k, "tabSettled",
                   [NoCall EXCEPT
                      !.op = "playerPost", !.pc = "sent", !.w = req.wallet,
                      !.body = [username |-> NameOf(req.wallet),
                                credits |-> req.credits,
                                spinsLeft |-> req.spinsLeft,
                                claimTime |-> req.claimTime]],
                   Store)

\* the POST of page k is received and its handler makes its read
SaveArrives(k) ==
  /\ calls[k].pc = "sent"
  /\ ReadPlayer(k, calls[k].op, calls[k].w, calls[k].body)

\* the write that overwrites a record only when none is stored
StoreWrites_KeepsExisting(k) ==
  /\ calls[k].pc \in {"write", "finish"}
  /\ LET c == Head(calls[k].cmds)
         rest == Tail(calls[k].cmds)
     IN CallStep(k, "storeWrite",
                 [calls[k] EXCEPT
                    !.cmds = rest,
                    !.pc = IF rest # <<>> THEN @
                           ELSE IF @ = "write" /\ calls[k].op = "sweep"
                           THEN "loop" ELSE "done"],
                 IF c.op = "set" /\ c.w \in DOMAIN player THEN Store
                 ELSE Write(Store, c))

\* the next write of the invocation: redis.set, sadd, zadd
StoreWrites(k) ==
  /\ calls[k].pc \in {"write", "finish"}
  /\ LET c == Head(calls[k].cmds)
         rest == Tail(calls[k].cmds)
     IN CallStep(k, "storeWrite",
                 [calls[k] EXCEPT
                    !.cmds = rest,
                    !.pc = IF rest # <<>> THEN @
                           ELSE IF @ = "write" /\ calls[k].op = "sweep"
                           THEN "loop" ELSE "done"],
                 Write(Store, c))

\* POST /api/player/reset-weekly: redis.get('system:lastResetWeek')
SweepReadsWeek(k) ==
  /\ calls[k].pc \in {"idle", "done"}
  /\ CallStep(k, "storeRead",
              [NoCall EXCEPT !.op = "sweep", !.week = getWeekNumber,
                             !.pc = IF lastResetWeek = getWeekNumber
                                    THEN "done" ELSE "smembers"],
              Store)

\* redis.smembers('players:all')
SweepReadsMembers(k) ==
  /\ calls[k].pc = "smembers"
  /\ \E order \in Orders(playersAll) :
       CallStep(k, "storeRead",
                [calls[k] EXCEPT !.todo = order, !.pc = "loop"], Store)

\* the loop: redis.get of the next player; the record read is written back
\* with credits 0
SweepReadsPlayer(k) ==
  /\ calls[k].pc = "loop"
  /\ calls[k].todo # <<>>
  /\ LET cmds == Zeroings(<<Head(calls[k].todo)>>, {})
     IN CallStep(k, "storeRead",
                 [calls[k] EXCEPT !.todo = Tail(@), !.cmds = cmds,
                                  !.pc = IF cmds = <<>> THEN "loop"
                                         ELSE "write"],
                 Store)

\* after the loop: redis.del('leaderboard:credits'); the write of the week
\* follows
SweepDeletes(k) ==
  /\ calls[k].pc = "loop"
  /\ calls[k].todo = <<>>
  /\ CallStep(k, "storeWrite",
              [calls[k] EXCEPT !.cmds = <<RedisSetWeek(calls[k].week)>>,
                               !.pc = "finish"],
              Write(Store, RedisDel))

\* ------------------------------------------- the page and the endpoints
\* loadAndDisplayLeaderboard(): the list returned is rendered; when the
\* fetch throws or the status is not 200 the empty list is rendered
loadAndDisplayLeaderboard(ok) ==
  /\ board' = IF ok
              THEN LeaderboardEntries([limit |-> topLimit, search |-> <<>>])
              ELSE <<>>
  /\ lastOp' = IF ok THEN "boardLoaded" ELSE "boardFailed"
  /\ UNCHANGED <<apiVars, lastWeeklyReset, poll, now, sessVars, tasks,
                 storeVars, settledToday>>

\* searchLeaderboard(searchTerm)
searchLeaderboard(term, ok) ==
  IF term = <<>> THEN loadAndDisplayLeaderboard(ok)
  ELSE /\ board' = IF ok
                   THEN LeaderboardEntries([limit |-> searchLimit,
                                            search |-> term])
                   ELSE <<>>
       /\ lastOp' = IF ok THEN "searchDone" ELSE "searchFailed"
       /\ UNCHANGED <<apiVars, lastWeeklyReset, poll, now, sessVars, tasks,
                      storeVars, settledToday>>

\* checkWeeklyReset(): it is Saturday and localStorage holds no reset of
\* this week, which begins on Sunday
ResetDue ==
  /\ getUTCDay = 6
  /\ \/ lastWeeklyReset = NoTime
     \/ DayOf(lastWeeklyReset) < getUTCDateString - getUTCDay

\* checkWeeklyReset(): when a reset is due the endpoint is called; it runs
\* the sweep ("answered"), answers with an error status ("refused"), or the
\* fetch throws ("unreachable"), which is logged
checkWeeklyReset(outcome) ==
  /\ IF ~ResetDue
     THEN /\ lastOp' = "weeklyCheckSkipped"
          /\ UNCHANGED <<storeVars, lastWeeklyReset>>
     ELSE IF outcome = "unreachable"
     THEN /\ lastOp' = "weeklyCheckFailed"
          /\ UNCHANGED <<storeVars, lastWeeklyReset>>
     ELSE /\ lastOp' = "weeklyChecked"
          /\ lastWeeklyReset' = now
          /\ IF outcome = "refused" THEN UNCHANGED storeVars
             ELSE \E order \in Orders(playersAll) :
                    LET cmds == SweepWrites(order, {})
                        S == WriteAll(Store, cmds, Len(cmds))
                    IN /\ player' = S.player
                       /\ playersAll' = S.playersAll
                       /\ leaderboard' = S.leaderboard
                       /\ lastResetWeek' = S.lastResetWeek
  /\ UNCHANGED <<apiVars, board, poll, now, sessVars, tasks, settledToday>>

\* ------------------------------------------------------------- page load
\* the state the constructor leaves: loadGameData, updateDisplay and
\* checkSpinLimit have run with no wallet connected
Constructed ==
  [wallet |-> NoWallet, isSpinning |-> FALSE, playerCredits |-> 0,
   lastClaimTime |-> NoTime, spinsUsedToday |-> 0,
   lastSpinResetDate |-> getUTCDateString, resultText |-> Text(""),
   requests |-> {}]

\* the page is reloaded: a new game object; requests already sent stay in
\* flight with nobody awaiting them
Reload ==
  /\ Commit([Constructed EXCEPT !.requests =
               {[r EXCEPT !.task = 0, !.live = FALSE] : r \in requests}])
  /\ tasks' = [t \in Slots |-> IdleTask]
  /\ board' = <<>>
  /\ lastOp' = "reload"
  /\ UNCHANGED <<apiVars, lastWeeklyReset, poll, now, storeVars, settledToday>>

Init ==
  /\ now = FirstTick
  /\ wallet = NoWallet
  /\ isSpinning = FALSE
  /\ playerCredits = 0
  /\ lastClaimTime = NoTime
  /\ spinsUsedToday = 0
  /\ lastSpinResetDate = DayOf(FirstTick)
  /\ resultText = Text("")
  /\ tasks = [t \in Slots |-> IdleTask]
  /\ requests = {}
  /\ player = [w \in {} |-> 0]
  /\ playersAll = {}
  /\ leaderboard = [w \in {} |-> 0]
  /\ lastResetWeek = 0
  /\ poll = NoPoll
  /\ username = NoNames
  /\ reply = NoReply
  /\ calls = NoCalls
  /\ board = <<>>
  /\ lastWeeklyReset = NoTime
  /\ settledToday = [w \in Wallets |-> 0]
  /\ lastOp = "init"

\* ------------------------------------------------------- specifications
\* Every handler runs to its end before the next event: the user and the
\* timers act only while no handler is suspended and no request is in
\* flight.  Time passes at any point.
Quiescent == requests = {} /\ \A t \in Slots : tasks[t].pc = "idle"

\* daily spins are accepted while fewer than MaxPaidSpins settled this day
PaidSpinsLeft == wallet # NoWallet => settledToday[wallet] < MaxPaidSpins

\* the handlers that continue a suspended invocation or answer a request
Continue ==
  \/ \E t \in Slots : ServerGet(t)
  \/ \E t \in Slots : ServerGetFail(t)
  \/ \E t \in Slots : InitLoaded(t)
  \/ \E t \in Slots : InitSaved(t)
  \/ \E t \in Slots : InitFallback(t)
  \/ \E t \in Slots : DailyResume(t)
  \/ \E t \in Slots : SpinFinalized(t)
  \/ \E t \in Slots : SpinFailed(t)
  \/ \E t \in Slots : SpinThrows(t)
  \/ \E t \in Slots : DemoSettles(t)
  \/ ServerPost
  \/ ServerPostFail

\* All operations of the session and the store, in sequential use, with
\* credits claimed and spent.
Next ==
  \/ Tick
  \/ Quiescent /\ WalletConnected("W1")
  \/ Quiescent /\ WalletDisconnected
  \/ Quiescent /\ PaidSpinsLeft /\ SpinWheelDaily
  \/ Quiescent /\ SpinWheelUnlimited
  \/ Quiescent /\ ClaimBasePoints
  \/ \E t \in Slots : ClaimResume(t)
  \/ Quiescent /\ TimerCheckSpinLimit
  \/ Quiescent /\ SaveUsername
  \/ Quiescent /\ WeeklyReset
  \/ Quiescent /\ Reload
  \/ Continue

Spec == Init /\ [][Next]_vars

\* The daily spin allowance across sessions: sequential use without claims
\* (the balance stays 0), any number of daily spins.
NextCount ==
  \/ Tick
  \/ Quiescent /\ WalletConnected("W1")
  \/ Quiescent /\ WalletDisconnected
  \/ Quiescent /\ SpinWheelDaily
  \/ Quiescent /\ SpinWheelUnlimited
  \/ Quiescent /\ TimerCheckSpinLimit
  \/ Quiescent /\ SaveUsername
  \/ Quiescent /\ WeeklyReset
  \/ Quiescent /\ Reload
  \/ Continue

SpecCount == Init /\ [][NextCount]_vars

\* Concurrent spins: one connected session whose record is loaded (the
\* state after the first connect and load of a new wallet), and every
\* interleaving of spin invocations, their continuations, the timer, the
\* clock and the pending saves.
InitSpin ==
  /\ now = FirstTick
  /\ wallet = "W1"
  /\ isSpinning = FALSE
  /\ playerCredits = 0
  /\ lastClaimTime = NoTime
  /\ spinsUsedToday = 0
  /\ lastSpinResetDate = DayOf(FirstTick)
  /\ resultText = Text("Wallet connected successfully!")
  /\ tasks = [t \in Slots |-> IdleTask]
  /\ requests = {}
  /\ player = [w \in {"W1"} |->
                 [credits |-> 0, spinsLeft |-> 5, claimTime |-> NoTime,
                  lastSpinResetDate |-> DayOf(FirstTick)]]
  /\ playersAll = {"W1"}
  /\ leaderboard = [w \in {} |-> 0]
  /\ lastResetWeek = 0
  /\ poll = NoPoll
  /\ username = NoNames
  /\ reply = NoReply
  /\ calls = NoCalls
  /\ board = <<>>
  /\ lastWeeklyReset = NoTime
  /\ settledToday = [w \in Wallets |-> 0]
  /\ lastOp = "initLoaded"

NextSpin ==
  \/ Tick
  \/ SpinWheelDaily
  \/ \E t \in Slots : DailyResume(t)
  \/ SpinWheelUnlimited
  \/ \E t \in Slots : SpinFinalized(t)
  \/ \E t \in Slots : SpinFailed(t)
  \/ \E t \in Slots : SpinThrows(t)
  \/ \E t \in Slots : DemoSettles(t)
  \/ TimerCheckSpinLimit
  \/ ServerPost
  \/ ServerPostFail

SpecSpin == InitSpin /\ [][NextSpin]_vars

\* The concurrent session again, with every external call eventually
\* returning or failing: a computation submitted ends finalized or with a
\* throw, the demo delay elapses, a save is answered, and an invocation
\* whose await has returned runs on.  Daily spins start while their
\* number, settled or pending, stays within MaxPaidSpins a day.
DailyPending == {t \in Slots : tasks[t].pc # "idle" /\ tasks[t].daily}

SettleRoom ==
  wallet # NoWallet
    => settledToday[wallet] + Cardinality(DailyPending) < MaxPaidSpins

\* the computation fails with the finalization timeout
SpinTimesOut(t) == SpinFailedWith(t, {"Timeout"})

NextLive ==
  \/ Tick
  \/ SettleRoom /\ SpinWheelDaily
  \/ \E t \in Slots : DailyResume(t)
  \/ SpinWheelUnlimited
  \/ \E t \in Slots : SpinFinalized(t)
  \/ \E t \in Slots : SpinTimesOut(t)
  \/ \E t \in Slots : SpinThrows(t)
  \/ \E t \in Slots : DemoSettles(t)
  \/ TimerCheckSpinLimit
  \/ ServerPost
  \/ ServerPostFail

\* a step that an external call's return or failure, or an elapsed delay,
\* makes possible
Returned ==
  \/ \E t \in Slots : SpinFinalized(t) \/ SpinTimesOut(t) \/ SpinThrows(t)
  \/ \E t \in Slots : DemoSettles(t)
  \/ \E t \in Slots : DailyResume(t)
  \/ ServerPost
  \/ ServerPostFail

CallsReturn == WF_vars(Returned)

SpecLive == InitSpin /\ [][NextLive]_vars /\ CallsReturn

\* One call of awaitComputationFinalization, entered with any maxRetries
\* of RetryInputs; every getAccountInfo returns or throws and every delay
\* elapses.
InitPoll ==
  /\ now = FirstTick
  /\ wallet = "W1"
  /\ isSpinning = TRUE
  /\ playerCredits = 0
  /\ lastClaimTime = NoTime
  /\ spinsUsedToday = 0
  /\ lastSpinResetDate = DayOf(FirstTick)
  /\ resultText = Text("Spinning the wheel (Daily)...")
  /\ tasks = [t \in Slots |-> IF t = 1
                THEN [IdleTask EXCEPT !.pc = "computing", !.daily = TRUE]
                ELSE IdleTask]
  /\ requests = {}
  /\ player = [w \in {"W1"} |->
                 [credits |-> 0, spinsLeft |-> 5, claimTime |-> NoTime,
                  lastSpinResetDate |-> DayOf(FirstTick)]]
  /\ playersAll = {"W1"}
  /\ leaderboard = [w \in {} |-> 0]
  /\ lastResetWeek = 0
  /\ \E n \in RetryInputs : poll = LoopTest([NoPoll EXCEPT !.maxRetries = n])
  /\ username = NoNames
  /\ reply = NoReply
  /\ calls = NoCalls
  /\ board = <<>>
  /\ lastWeeklyReset = NoTime
  /\ settledToday = [w \in Wallets |-> 0]
  /\ lastOp = "dailyStarted"

NextPoll ==
  \/ CheckFound
  \/ CheckAbsent
  \/ CheckFaults
  \/ DelayElapsed

SpecPoll == InitPoll /\ [][NextPoll]_vars /\ WF_vars(NextPoll)

\* Reconciliation of one outcome: a daily spin is in flight on a loaded
\* balance b, and the computation returns any raw result.
InitApply ==
  /\ now = FirstTick
  /\ wallet = "W1"
  /\ isSpinning = TRUE
  /\ playerCredits \in 0..MaxB
  /\ lastClaimTime = NoTime
  /\ spinsUsedToday = 0
  /\ lastSpinResetDate = DayOf(FirstTick)
  /\ resultText = Text("Spinning the wheel (Daily)...")
  /\ tasks = [t \in Slots |-> IF t = 1
                THEN [IdleTask EXCEPT !.pc = "computing", !.daily = TRUE]
                ELSE IdleTask]
  /\ requests = {}
  /\ player = [w \in {"W1"} |->
                 [credits |-> playerCredits, spinsLeft |-> 5,
                  claimTime |-> NoTime,
                  lastSpinResetDate |-> DayOf(FirstTick)]]
  /\ playersAll = {"W1"}
  /\ leaderboard = [w \in {"W1"} |-> playerCredits]
  /\ lastResetWeek = 0
  /\ poll = NoPoll
  /\ username = NoNames
  /\ reply = NoReply
  /\ calls = NoCalls
  /\ board = <<>>
  /\ lastWeeklyReset = NoTime
  /\ settledToday = [w \in Wallets |-> 0]
  /\ lastOp = "dailyStarted"

NextApply ==
  \/ \E t \in Slots : SpinFinalizedWith(t, RawResults)
  \/ ServerPost

SpecApply == InitApply /\ [][NextApply]_vars

\* The API alone: any client sends any request, the clock runs, and any
\* store call can throw.
StoreNames == {<<"a", "n", "n">>}
Bodies ==
  [username : StoreNames, credits : {-1, 0, MaxScore}, spinsLeft : {3},
   claimTime : {FirstTick}]

InitStore ==
  /\ now = FirstTick
  /\ wallet = NoWallet
  /\ isSpinning = FALSE
  /\ playerCredits = 0
  /\ lastClaimTime = NoTime
  /\ spinsUsedToday = 0
  /\ lastSpinResetDate = DayOf(FirstTick)
  /\ resultText = Text("")
  /\ tasks = [t \in Slots |-> IdleTask]
  /\ requests = {}
  /\ player = [w \in {} |-> 0]
  /\ playersAll = {}
  /\ leaderboard = [w \in {} |-> 0]
  /\ lastResetWeek = 0
  /\ poll = NoPoll
  /\ username = NoNames
  /\ reply = NoReply
  /\ calls = NoCalls
  /\ board = <<>>
  /\ lastWeeklyReset = NoTime
  /\ settledToday = [w \in Wallets |-> 0]
  /\ lastOp = "init"

NextStore ==
  \/ Tick
  \/ \E w \in Wallets : PlayerGet(w)
  \/ \E w \in Wallets, body \in Bodies : PlayerPost(w, body)
  \/ \E order \in Orders(playersAll), failing \in SUBSET playersAll :
       ResetWeekly(order, failing)

SpecStore == InitStore /\ [][NextStore]_vars

\* The ranking alone: any ranking of up to three members with any names
\* stored for the wallets among them, read with any limit or search term,
\* posted to and reset.
RankNames == {<<>>, <<"a", "n", "n">>, <<"b", "o", "b">>}
Limits == (0..MaxLimit) \cup {topLimit}
Terms == {<<>>, <<"z">>, <<"1">>, <<"a", "n">>}

InitRank ==
  /\ now = FirstTick
  /\ wallet = NoWallet
  /\ isSpinning = FALSE
  /\ playerCredits = 0
  /\ lastClaimTime = NoTime
  /\ spinsUsedToday = 0
  /\ lastSpinResetDate = DayOf(FirstTick)
  /\ resultText = Text("")
  /\ tasks = [t \in Slots |-> IdleTask]
  /\ requests = {}
  /\ \E S \in SUBSET Members : leaderboard \in [S -> 0..MaxScore]
  /\ playersAll = DOMAIN leaderboard \cap Wallets
  /\ player = [w \in playersAll |->
                 [credits |-> leaderboard[w], spinsLeft |-> 5,
                  claimTime |-> NoTime,
                  lastSpinResetDate |-> DayOf(FirstTick)]]
  /\ username \in [playersAll -> RankNames]
  /\ lastResetWeek = 0
  /\ poll = NoPoll
  /\ reply = NoReply
  /\ calls = NoCalls
  /\ board = <<>>
  /\ lastWeeklyReset = NoTime
  /\ settledToday = [w \in Wallets |-> 0]
  /\ lastOp = "init"

NextRank ==
  \/ \E n \in Limits : LoadLeaderboard(n)
  \/ \E term \in Terms : SearchLeaderboard(term)
  \/ \E w \in Members, credits \in 0..MaxScore : LeaderboardPost(w, credits)
  \/ LeaderboardReset

SpecRank == InitRank /\ [][NextRank]_vars

\* One daily spin from the polling of its computation to the stored save:
\* the computation has put any segment on chain.
InitFetch ==
  /\ now = FirstTick
  /\ wallet = "W1"
  /\ isSpinning = TRUE
  /\ playerCredits = MaxCredits
  /\ lastClaimTime = NoTime
  /\ spinsUsedToday = 0
  /\ lastSpinResetDate = DayOf(FirstTick)
  /\ resultText = Text("Spinning the wheel (Daily)...")
  /\ tasks = [t \in Slots |-> IF t = 1
                THEN [IdleTask EXCEPT !.pc = "computing", !.daily = TRUE]
                ELSE IdleTask]
  /\ requests = {}
  /\ player = [w \in {"W1"} |->
                 [credits |-> playerCredits, spinsLeft |-> 5,
                  claimTime |-> NoTime,
                  lastSpinResetDate |-> DayOf(FirstTick)]]
  /\ playersAll = {"W1"}
  /\ leaderboard = [w \in {"W1"} |-> playerCredits]
  /\ lastResetWeek = 0
  /\ \E event \in 1..wheelSections :
       poll = LoopTest([NoPoll EXCEPT !.maxRetries = maxRetries,
                                      !.event = event])
  /\ username = NoNames
  /\ reply = NoReply
  /\ calls = NoCalls
  /\ board = <<>>
  /\ lastWeeklyReset = NoTime
  /\ settledToday = [w \in Wallets |-> 0]
  /\ lastOp = "dailyStarted"

NextFetch ==
  \/ CheckFound
  \/ FetchSpinResult
  \/ \E t \in Slots : SpinFetched(t)
  \/ ServerPost

SpecFetch == InitFetch /\ [][NextFetch]_vars

\* The operations of one session with every external call able to fail:
\* the player store, the ranking, the computation and the weekly reset
\* endpoint; sequential use from Friday to Saturday.
NextFaults ==
  \/ Tick
  \/ Quiescent /\ WalletConnected("W1")
  \/ Quiescent /\ PaidSpinsLeft /\ SpinWheelDaily
  \/ Quiescent /\ playerCredits = 0 /\ ClaimBasePoints
  \/ \E t \in Slots : ClaimResume(t)
  \/ Quiescent /\ \E ok \in BOOLEAN : loadAndDisplayLeaderboard(ok)
  \/ Quiescent /\ \E ok \in BOOLEAN : searchLeaderboard(<<"1">>, ok)
  \/ Quiescent /\ \E outcome \in {"answered", "refused", "unreachable"} :
                    checkWeeklyReset(outcome)
  \/ Continue

SpecFaults == Init /\ [][NextFaults]_vars

\* A session across a weekly reset: wallet W1 has connected, claimed its
\* base points at FirstTick and the save is stored; the week is not reset
\* yet.  The session goes on in sequential use while the reset endpoint is
\* called at any quiet moment.
InitSwept ==
  /\ now = FirstTick
  /\ wallet = "W1"
  /\ isSpinning = FALSE
  /\ playerCredits = basePoints
  /\ lastClaimTime = FirstTick
  /\ spinsUsedToday = 0
  /\ lastSpinResetDate = DayOf(FirstTick)
  /\ resultText = Text("Claimed base credits!")
  /\ tasks = [t \in Slots |-> IdleTask]
  /\ requests = {}
  /\ player = [w \in {"W1"} |->
                 [credits |-> basePoints, spinsLeft |-> 5,
                  claimTime |-> FirstTick,
                  lastSpinResetDate |-> DayOf(FirstTick)]]
  /\ playersAll = {"W1"}
  /\ leaderboard = [w \in {"W1"} |-> basePoints]
  /\ lastResetWeek = 0
  /\ poll = NoPoll
  /\ username = NoNames
  /\ reply = NoReply
  /\ calls = NoCalls
  /\ board = <<>>
  /\ lastWeeklyReset = NoTime
  /\ settledToday = [w \in Wallets |-> 0]
  /\ lastOp = "claimDone"

NextSwept ==
  \/ Tick
  \/ Quiescent /\ WeeklyReset
  \/ Quiescent /\ PaidSpinsLeft /\ SpinWheelDaily
  \/ Quiescent /\ ClaimBasePoints
  \/ \E t \in Slots : ClaimResume(t)
  \/ Quiescent /\ TimerCheckSpinLimit
  \/ \E t \in Slots : DailyResume(t)
  \/ \E t \in Slots : SpinFinalized(t)
  \/ ServerPost

SpecSwept == InitSwept /\ [][NextSwept]_vars

\* The API with its invocations overlapping: up to MaxCalls requests are
\* served at once, their store calls in any order; no store call fails.
RaceBodies ==
  [username : StoreNames, credits : {0, MaxScore}, spinsLeft : {3},
   claimTime : {FirstTick}]

InitRace == InitStore

NextRace ==
  \/ \E k \in CallIds, w \in Wallets : PlayerReads(k, "playerGet", w, NoBody)
  \/ \E k \in CallIds, w \in Wallets, body \in RaceBodies :
       PlayerReads(k, "playerPost", w, body)
  \/ \E k \in CallIds : StoreWrites(k)
  \/ \E k \in CallIds : SweepReadsWeek(k)
  \/ \E k \in CallIds : SweepReadsMembers(k)
  \/ \E k \in CallIds : SweepReadsPlayer(k)
  \/ \E k \in CallIds : SweepDeletes(k)

SpecRace == InitRace /\ [][NextRace]_vars

\* Two pages of wallet W1, both loaded with the stored balance of 100
\* credits; each settles one daily spin and saves, the store calls of the
\* two saves being served in any order.
InitTabs == InitSwept

NextTabs ==
  \/ \E k \in CallIds, raw \in DailyRaw : TabSettles(k, raw)
  \/ \E k \in CallIds : SaveArrives(k)
  \/ \E k \in CallIds : StoreWrites(k)

SpecTabs == InitTabs /\ [][NextTabs]_vars

\* Claims of one loaded session, invoked at any time: the listeners of one
\* click call claimBasePoints one after the other, each invocation running
\* up to its await while the saves of the earlier ones are pending.
InitClaims == InitSpin

NextClaims ==
  \/ Tick
  \/ ClaimBasePoints
  \/ \E t \in Slots : ClaimResume(t)
  \/ TimerCheckSpinLimit
  \/ ServerPost
  \/ ServerPostFail

SpecClaims == InitClaims /\ [][NextClaims]_vars

\* The wallet changes under a running session: both wallets hold a stored
\* balance, the session is loaded for W1, which alone starts daily spins;
\* at any point the wallet adapter disconnects or connects W2, whose record
\* is then loaded.
InitSwitch ==
  /\ now = FirstTick
  /\ wallet = "W1"
  /\ isSpinning = FALSE
  /\ playerCredits = basePoints
  /\ lastClaimTime = FirstTick
  /\ spinsUsedToday = 0
  /\ lastSpinResetDate = DayOf(FirstTick)
  /\ resultText = Text("Wallet connected successfully!")
  /\ tasks = [t \in Slots |-> IdleTask]
  /\ requests = {}
  /\ player = [w \in Wallets |->
                 [credits |-> basePoints, spinsLeft |-> 5,
                  claimTime |-> FirstTick,
                  lastSpinResetDate |-> DayOf(FirstTick)]]
  /\ playersAll = Wallets
  /\ leaderboard = [w \in Wallets |-> basePoints]
  /\ lastResetWeek = 0
  /\ poll = NoPoll
  /\ username = NoNames
  /\ reply = NoReply
  /\ calls = NoCalls
  /\ board = <<>>
  /\ lastWeeklyReset = NoTime
  /\ settledToday = [w \in Wallets |-> 0]
  /\ lastOp = "initLoaded"

NextSwitch ==
  \/ Tick
  \/ TimerCheckSpinLimit
  \/ wallet = "W1" /\ PaidSpinsLeft /\ SpinWheelDaily
  \/ WalletConnected("W2")
  \/ WalletDisconnected
  \/ \E t \in Slots : ServerGet(t)
  \/ \E t \in Slots : InitLoaded(t)
  \/ \E t \in Slots : SpinFinalized(t)
  \/ \E t \in Slots : SpinFailed(t)
  \/ ServerPost

SpecSwitch == InitSwitch /\ [][NextSwitch]_vars

\* The segment index of any raw result: a daily spin is in flight on any
\* loaded balance and submitSpinComputation has returned any integer of
\* RawInputs, which handleArciumSpinResult reconciles.
InitClamp ==
  /\ now = FirstTick
  /\ wallet = "W1"
  /\ isSpinning = TRUE
  /\ playerCredits \in 0..MaxB
  /\ lastClaimTime = NoTime
  /\ spinsUsedToday = 0
  /\ lastSpinResetDate = DayOf(FirstTick)
  /\ resultText = Text("Spinning the wheel (Daily)...")
  /\ tasks = [t \in Slots |-> IF t = 1
                THEN [IdleTask EXCEPT !.pc = "computing", !.daily = TRUE]
                ELSE IdleTask]
  /\ requests = {}
  /\ player = [w \in {"W1"} |->
                 [credits |-> playerCredits, spinsLeft |-> 5,
                  claimTime |-> NoTime,
                  lastSpinResetDate |-> DayOf(FirstTick)]]
  /\ playersAll = {"W1"}
  /\ leaderboard = [w \in {"W1"} |-> playerCredits]
  /\ lastResetWeek = 0
  /\ \E result \in RawInputs :
       poll = [NoPoll EXCEPT !.pc = "fetched", !.maxRetries = maxRetries,
                             !.result = result]
  /\ username = NoNames
  /\ reply = NoReply
  /\ calls = NoCalls
  /\ board = <<>>
  /\ lastWeeklyReset = NoTime
  /\ settledToday = [w \in Wallets |-> 0]
  /\ lastOp = "fetchSpinResult"

NextClamp ==
  \/ \E t \in Slots : SpinFetched(t)
  \/ ServerPost

SpecClamp == InitClamp /\ [][NextClamp]_vars

\* ------------------------------------------------------------ properties
\* the spin attempts between submission start and settlement
InFlight == {t \in Slots : tasks[t].pc \in {"computing", "demo"}}

\* C1: at most one spin attempt of the session is between submission start
\* and settlement at any time.
C1_AtMostOneInFlight == Cardinality(InFlight) <= 1

\* C2: for one wallet at most spinsPerDay daily spins are settled within
\* one UTC day, across sessions, reloads and failed saves.
C2_DailyLimitPerDay == \A w \in Wallets : settledToday[w] <= spinsPerDay

\* C3: in sequential use within one UTC day a daily spin is accepted while
\* fewer than spinsPerDay are used, each settlement raises spinsUsedToday by
\* exactly one, and the attempt made with spinsPerDay used is refused with
\* the limit-reached error while spinsLeft reads 0.
C3_FiveThenRefused ==
  [][/\ lastOp' = "dailyStarted" => spinsUsedToday < spinsPerDay
     /\ (lastOp' = "settledDaily" /\ lastSpinResetDate = getUTCDateString)
          => spinsUsedToday' = spinsUsedToday + 1
     /\ lastOp' = "dailyRefused"
          => /\ spinsUsedToday = spinsPerDay
             /\ spinsPerDay - spinsUsedToday' = 0
             /\ resultText'.text = "Daily spin limit reached!"]_vars

C3_Witness ==
  /\ lastOp = "dailyRefused"
  /\ settledToday["W1"] = spinsPerDay
  /\ spinsUsedToday = spinsPerDay
  /\ resultText.text = "Daily spin limit reached!"

\* C4: a daily spin refused for the limit on the current UTC day changes
\* neither credits, spinsUsedToday, lastClaimTime nor isSpinning, submits no
\* computation and issues no save.
C4_RefusalMutatesNothing ==
  [][(lastOp' = "dailyRefused" /\ lastSpinResetDate = getUTCDateString)
       => /\ UNCHANGED <<playerCredits, spinsUsedToday, lastClaimTime,
                         isSpinning, lastSpinResetDate, requests>>
          /\ InFlight' = InFlight]_vars

C4_Witness ==
  /\ lastOp = "dailyRefused"
  /\ spinsUsedToday >= spinsPerDay
  /\ lastSpinResetDate = getUTCDateString
  /\ resultText.text = "Daily spin limit reached!"

\* C5: the settlement of a practice spin leaves the in-memory credits
\* unchanged, issues no player-store save and changes no ranking score.
C5_PracticeIsInvisible ==
  [][lastOp' = "settledPractice"
       => /\ playerCredits' = playerCredits
          /\ requests' = requests
          /\ leaderboard' = leaderboard]_vars

\* the signed fraction of a wheel label, in thousandths of the balance kept:
\* 1000 * (1 + e)
KeptPerMille(label) ==
  CASE label = "2x" -> 3000
    [] label = "3x" -> 4000
    [] label = "0.5x" -> 1500
    [] label = "-0.6x" -> 400
    [] label = "-20%" -> 800
    [] label = "30%" -> 1300
    [] label = "-50%" -> 500
    [] label = "-80%" -> 200

\* max(0, round(b * (1 + e)))
Expected(b, label) ==
  Max(0, (2 * b * KeptPerMille(label) + 1000) \div 2000)

C7_CreditsNonNegative ==
  /\ playerCredits >= 0
  /\ \A w \in DOMAIN player : player[w].credits >= 0
  /\ \A req \in requests : req.credits >= 0

C7_Witness ==
  /\ lastOp = "post"
  /\ resultText.label = "-80%"
  /\ "W1" \in DOMAIN player
  /\ player["W1"].credits = 20
  /\ playerCredits = 20

\* C8: spinsUsedToday stays within 0..spinsPerDay, and so do the spinsLeft
\* the session sends and the spinsLeft stored.
C8_SpinsWithinLimit ==
  /\ spinsUsedToday \in 0..spinsPerDay
  /\ \A req \in requests : req.spinsLeft \in 0..spinsPerDay
  /\ \A w \in DOMAIN player : player[w].spinsLeft \in 0..spinsPerDay

\* the cooldown condition of the claim, from the held lastClaimTime
CooldownOver ==
  lastClaimTime = NoTime \/ now - lastClaimTime >= cooldownPeriod

ClaimOps == {"claimed", "claimRefused", "claimNoWallet"}

ClaimSucceeded ==
  /\ lastOp' = "claimed"
  /\ playerCredits' = playerCredits + basePoints
  /\ lastClaimTime' = now

ClaimRefused ==
  /\ lastOp' # "claimed"
  /\ UNCHANGED <<playerCredits, lastClaimTime, requests>>

\* C9 as stated: a claim succeeds exactly when lastClaimTime is unset or at
\* least the cooldown has passed since it; success adds basePoints and sets
\* lastClaimTime to now, refusal changes neither and saves nothing.
C9_ClaimExactlyOnCooldown ==
  [][lastOp' \in ClaimOps
       => IF CooldownOver THEN ClaimSucceeded ELSE ClaimRefused]_vars

\* C9 amended: with a wallet connected a claim succeeds exactly when
\* lastClaimTime is unset or at least the cooldown has passed since it;
\* success adds basePoints and sets lastClaimTime to now; a refusal, for the
\* cooldown or for the missing wallet, changes neither and saves nothing.
C9_ClaimWithWallet ==
  [][lastOp' \in ClaimOps
       => IF wallet # NoWallet /\ CooldownOver THEN ClaimSucceeded
          ELSE ClaimRefused]_vars

\* a second claim made exactly one cooldown after the first
C9_Witness ==
  /\ lastOp = "claimed"
  /\ lastClaimTime = now
  /\ now >= FirstTick + cooldownPeriod
  /\ \E w \in DOMAIN player : player[w].claimTime = now - cooldownPeriod

\* the steps that run the day-rollover check on the held state
RolloverSteps == {"timer", "dailyRollover", "dailyRefused", "settledDaily",
                  "settledPractice", "spinFailed", "initSaved"}

\* C10: at every call site the rollover check resets spinsUsedToday to 0
\* only when the held reset date differs from today, adopts today's date,
\* and so does nothing when it runs again on the same day.
C10_RolloverIdempotent ==
  [][/\ lastOp' \in RolloverSteps
          => /\ lastSpinResetDate' = getUTCDateString
             /\ spinsUsedToday' =
                  (IF lastSpinResetDate = getUTCDateString
                   THEN spinsUsedToday ELSE 0)
                  + (IF lastOp' = "settledDaily" THEN 1 ELSE 0)
     /\ lastOp' = "dailyStarted"
          => UNCHANGED <<lastSpinResetDate, spinsUsedToday>>
     /\ lastOp' = "initLoaded"
          => \E t \in Slots :
               /\ tasks[t].pc = "fetched"
               /\ tasks'[t].pc # "fetched"
               /\ lastSpinResetDate' = getUTCDateString
               /\ spinsUsedToday' =
                    IF lastSpinResetDate = getUTCDateString
                    THEN spinsPerDay - tasks[t].spinsLeft ELSE 0]_vars

\* a reset just made on the first spin of a new day, yesterday's count
\* still stored
C10_Witness ==
  /\ lastOp = "dailyRollover"
  /\ spinsUsedToday = 0
  /\ lastSpinResetDate = getUTCDateString
  /\ wallet \in DOMAIN player
  /\ player[wallet].spinsLeft < spinsPerDay
  /\ player[wallet].lastSpinResetDate # getUTCDateString

\* the requests a step removes from flight
Answered == requests \ requests'

\* C11: a save handled for a record whose stored reset date is not today's
\* stores spinsLeft = spinsPerDay and today's date, whatever spinsLeft the
\* request carries.
C11_ServerResetWins ==
  [][lastOp' = "post"
       => \A req \in Answered :
            (/\ req.wallet \in DOMAIN player
             /\ player[req.wallet].lastSpinResetDate # getUTCDateString)
              => /\ player'[req.wallet].spinsLeft = spinsPerDay
                 /\ player'[req.wallet].lastSpinResetDate = getUTCDateString
                 /\ player'[req.wallet].credits = req.credits]_vars

\* a save sent before midnight by a session with spins used was stored
\* after midnight with the full allowance
C11_Witness ==
  /\ lastOp = "post"
  /\ wallet \in DOMAIN player
  /\ spinsUsedToday > 0
  /\ lastSpinResetDate # getUTCDateString
  /\ player[wallet].spinsLeft = spinsPerDay
  /\ player[wallet].lastSpinResetDate = getUTCDateString
  /\ settledToday[wallet] = 0

\* C12: once a wallet's record carries today's date, no fetch and no save
\* raises its stored spinsLeft for the rest of the day.
C12_ResetOncePerDay ==
  [][\A w \in DOMAIN player :
       (lastOp' \in {"get", "post"}
          /\ player[w].lastSpinResetDate = getUTCDateString)
         => player'[w].spinsLeft <= player[w].spinsLeft]_vars

Ended(t) == tasks[t].pc = "computing" /\ tasks'[t].pc # "computing"

FailedWith(kinds) ==
  /\ lastOp' = "spinFailed"
  /\ resultText'.text \in {SpinErrorText(fault) : fault \in kinds}

\* C14: a spin whose submission or polling fails with a network fault or
\* the finalization timeout continues in demo mode.
C14_FaultFallsBackToDemo ==
  [][FailedWith({"NetworkFault", "Timeout"})
       => \A t \in Slots : Ended(t) => tasks'[t].pc = "demo"]_vars

\* what C15 says of a terminal failure: the attempt ends without demo mode
\* or a second submission, isSpinning is false, credits and spinsUsedToday
\* are unchanged and no save is issued
TerminalUnchanged ==
  /\ \A t \in Slots : Ended(t) => tasks'[t].pc = "idle"
  /\ \A t \in Slots : ~Ended(t) => tasks'[t] = tasks[t]
  /\ isSpinning' = FALSE
  /\ UNCHANGED <<playerCredits, spinsUsedToday, requests>>

\* C15 as stated: a spin failing for a missing computation definition or a
\* declined signature is terminal and changes nothing.
C15_TerminalFailure ==
  [][FailedWith({"SetupIncomplete", "UserRejected"})
       => TerminalUnchanged]_vars

\* C15 amended: the same, while the held reset date is today's; after a
\* UTC day change the failure is still terminal and leaves credits alone,
\* but the rollover of updateDisplay runs.
C15_TerminalFailureSameDay ==
  [][FailedWith({"SetupIncomplete", "UserRejected"})
       => /\ lastSpinResetDate = getUTCDateString => TerminalUnchanged
          /\ \A t \in Slots : Ended(t) => tasks'[t].pc = "idle"
          /\ isSpinning' = FALSE
          /\ playerCredits' = playerCredits]_vars

C15_Witness ==
  /\ lastOp = "spinFailed"
  /\ resultText.text = SpinErrorText("UserRejected")
  /\ ~isSpinning
  /\ spinsUsedToday > 0
  /\ lastSpinResetDate = getUTCDateString
  /\ InFlight = {}

\* the pending save is the one a settled daily spin issued: the outcome is
\* still displayed and the save carries the session's values
SaveOfSettledSpin(req) ==
  /\ req.live /\ req.task = 0
  /\ resultText.text = "You got"
  /\ req.credits = playerCredits
  /\ req.spinsLeft = spinsPerDay - spinsUsedToday

\* C16: when the save of a settled daily spin fails, credits and
\* spinsUsedToday keep their post-spin values, the save error is shown and
\* isSpinning is false; the next spin is not ignored and the next claim is
\* refused only for the cooldown.
C16_FailedSaveKeepsState ==
  [][/\ lastOp' = "postFail"
          => \A req \in Answered :
               SaveOfSettledSpin(req)
                 => /\ UNCHANGED <<playerCredits, spinsUsedToday, wallet,
                                   lastClaimTime, lastSpinResetDate>>
                    /\ resultText'.text =
                         "Failed to save progress. Please try again."
                    /\ isSpinning' = FALSE
     /\ lastOp = "postFail"
          => /\ lastOp' \notin {"dailyIgnored", "practiceIgnored"}
             /\ lastOp' = "claimRefused" => ~CooldownOver]_vars

\* the save of a spin that tripled 100 credits failed: the session holds
\* 300, the store still 100
C16_Witness ==
  /\ lastOp = "postFail"
  /\ resultText.text = "Failed to save progress. Please try again."
  /\ ~isSpinning
  /\ playerCredits = 300
  /\ spinsUsedToday = 1
  /\ wallet = "W1"
  /\ player["W1"].credits = 100
  /\ player["W1"].spinsLeft = spinsPerDay

\* C17: from the state of any spin in flight, for its mode and any
\* segment number, reconciling a demo outcome leaves the session that
\* reconciling a finalized outcome leaves (credits, spinsUsedToday, reset
\* date, the save issued), except for the explorer link of the result.
C17_DemoLikeReal ==
  \A t \in InFlight : \A segment \in 1..wheelSections :
    LET real == handleArciumSpinResult(Cur, segment, TRUE, tasks[t].daily)
        demo == handleArciumSpinResult(Cur, segment, FALSE, tasks[t].daily)
    IN /\ demo = [real EXCEPT !.resultText.link = FALSE]
       /\ real.resultText.link

\* a demo outcome settled as a daily spin: 100 credits tripled, the save
\* issued, no explorer link
C17_Witness ==
  /\ lastOp = "settledDaily"
  /\ resultText.text = "You got"
  /\ ~resultText.link
  /\ playerCredits = 300
  /\ spinsUsedToday = 1
  /\ \E req \in requests : req.credits = 300 /\ req.spinsLeft = spinsPerDay - 1

\* C18: when every external call returns or fails, a session that is
\* spinning is eventually not spinning.
C18_SpinEventuallyIdle == isSpinning ~> ~isSpinning

\* an attempt that went through the demo fallback has ended
C18_Witness ==
  /\ lastOp = "settledDaily"
  /\ ~resultText.link
  /\ ~isSpinning
  /\ InFlight = {}
  /\ spinsUsedToday = 1

\* C19: a call of awaitComputationFinalization makes at most maxRetries
\* checks; it has returned finalized exactly when its last check found the
\* account, it has thrown the timeout only after maxRetries checks none of
\* which found it, and it always ends one way or the other.
C19_PollingTerminates ==
  /\ [](poll.checks <= poll.maxRetries)
  /\ [](poll.pc = "finalized" <=> poll.found)
  /\ [](poll.pc = "timeout"
          => poll.checks = poll.maxRetries /\ ~poll.found)
  /\ <>(poll.pc \in {"finalized", "timeout"})

\* the default 60 checks were made, none found the account
C19_Witness ==
  /\ poll.pc = "timeout"
  /\ poll.maxRetries = maxRetries
  /\ poll.checks = maxRetries

WeeklyOps == {"weeklyReset", "weeklyResetSkipped"}

KeepsProfile(w) ==
  /\ username'[w] = username[w]
  /\ player'[w].spinsLeft = player[w].spinsLeft
  /\ player'[w].claimTime = player[w].claimTime
  /\ player'[w].lastSpinResetDate = player[w].lastSpinResetDate

\* C21: a weekly reset sweep that runs, the week not being recorded yet,
\* and meets no store failure leaves every registered wallet with stored
\* credits 0, the ranking empty and the current week recorded; the
\* username, spinsLeft, claimTime and lastSpinResetDate of every player,
\* and the set of players, are as they were.
C21_SweepZeroesCreditsOnly ==
  [][(lastOp' = "sweep" /\ reply'.failed = {})
       => /\ lastResetWeek # getWeekNumber
          /\ lastResetWeek' = getWeekNumber
          /\ \A w \in playersAll : player'[w].credits = 0
          /\ DOMAIN leaderboard' = {}
          /\ playersAll' = playersAll
          /\ DOMAIN player' = DOMAIN player
          /\ \A w \in DOMAIN player : KeepsProfile(w)]_vars

\* a sweep without failures has zeroed two players, one of them with a
\* saved name, a claim time and used spins
C21_Witness ==
  /\ lastOp = "sweep"
  /\ reply.failed = {}
  /\ Len(reply.writes) = 4
  /\ playersAll = Wallets
  /\ \E w \in Wallets : /\ username[w] \in StoreNames
                        /\ player[w].claimTime = FirstTick
                        /\ player[w].spinsLeft = 3
                        /\ player[w].credits = 0

\* C22: a store failure on the record of one player does not abort the
\* sweep: the call completes with status 200, every other registered wallet
\* has its credits zeroed, the ranking is cleared and the week recorded,
\* and the record that could not be processed is as it was.
C22_SweepSurvivesPlayerFailure ==
  [][lastOp' = "sweep"
       => /\ reply'.status = 200
          /\ \A w \in playersAll \ reply'.failed : player'[w].credits = 0
          /\ \A w \in reply'.failed : player'[w] = player[w]
          /\ DOMAIN leaderboard' = {}
          /\ lastResetWeek' = getWeekNumber]_vars

\* a sweep completed although the calls for one player threw: that player
\* keeps its credits and the other one is zeroed
C22_Witness ==
  /\ lastOp = "sweep"
  /\ reply.status = 200
  /\ \E w \in reply.failed : player[w].credits = MaxScore
  /\ \E w \in playersAll \ reply.failed :
       /\ player[w].credits = 0
       /\ \E i \in DOMAIN reply.writes : reply.writes[i].w = w

\* a GET or a POST of /api/player has answered 200 in this step
PlayerServed == lastOp' \in {"playerGet", "playerPost"} /\ reply'.status = 200

\* C23: a GET for a wallet with no record stores and returns the default
\* record (credits 0, spinsLeft 5, no claimTime, today's date) and adds the
\* wallet to players:all; after any completed GET or POST the wallet, which
\* then holds a stored record, is a member of players:all.
C23_StoredPlayerIsRegistered ==
  [][PlayerServed
       => LET w == reply'.player.walletAddress
          IN /\ w \in DOMAIN player'
             /\ w \in playersAll'
             /\ (lastOp' = "playerGet" /\ w \notin DOMAIN player)
                  => /\ player'[w] = DefaultPlayer
                     /\ reply'.player =
                          PlayerData(w, DefaultPlayer, DefaultUsername(w))
                     /\ reply'.player.credits = 0
                     /\ reply'.player.spinsLeft = 5
                     /\ reply'.player.claimTime = NoTime
                     /\ reply'.player.lastSpinResetDate = DayOf(now)]_vars

\* C24: a GET that finds a record whose date is not today's returns and
\* stores it with spinsLeft 5 and today's date, its credits, username and
\* claimTime and the rest of the store being unchanged; a GET that finds a
\* record of today sends no write and returns the record as stored.
C24_GetResetsSpinsOnly ==
  [][(lastOp' = "playerGet" /\ reply'.status = 200
        /\ reply'.player.walletAddress \in DOMAIN player)
       => LET w == reply'.player.walletAddress
          IN /\ UNCHANGED <<playersAll, leaderboard, lastResetWeek>>
             /\ username' = username
             /\ \A v \in DOMAIN player \ {w} : player'[v] = player[v]
             /\ reply'.player = PlayerData(w, player'[w], username[w])
             /\ IF player[w].lastSpinResetDate # DayOf(now)
                THEN player'[w] =
                       [player[w] EXCEPT !.spinsLeft = 5,
                                         !.lastSpinResetDate = DayOf(now)]
                ELSE /\ reply'.writes = <<>>
                     /\ player' = player]_vars

\* a record saved the day before, with credits, a name, a claim time and
\* used spins, has been fetched and given five spins
C24_Witness ==
  /\ lastOp = "playerGet"
  /\ reply.status = 200
  /\ Len(reply.writes) = 1
  /\ reply.player.username \in StoreNames
  /\ reply.player.credits = MaxScore
  /\ reply.player.claimTime = FirstTick
  /\ reply.player.spinsLeft = 5
  /\ reply.player.lastSpinResetDate = DayOf(now)
  /\ player[reply.player.walletAddress].spinsLeft = 5

\* a POST of /api/player has answered 200 in this step
Saved == lastOp' = "playerPost" /\ reply'.status = 200

\* C25: after a completed save with credits c >= 0 the ranking holds the
\* score c for the wallet, set and not added to what was there: the same
\* save made again leaves the ranking as it is, and no save changes the
\* score of another member.
C25_SaveSetsScore ==
  [][/\ (Saved /\ reply'.player.credits >= 0)
          => LET w == reply'.player.walletAddress
             IN /\ DOMAIN leaderboard' = DOMAIN leaderboard \cup {w}
                /\ leaderboard'[w] = reply'.player.credits
                /\ \A v \in DOMAIN leaderboard \ {w} :
                     leaderboard'[v] = leaderboard[v]
     /\ (Saved /\ lastOp = "playerPost" /\ reply.status = 200
           /\ reply'.player = reply.player /\ reply'.player.credits >= 0)
          => leaderboard' = leaderboard]_vars

\* a save with positive credits has been stored while another member is
\* ranked with its own score
C25_Witness ==
  /\ lastOp = "playerPost"
  /\ reply.status = 200
  /\ reply.player.credits = MaxScore
  /\ DOMAIN leaderboard = Wallets
  /\ leaderboard[reply.player.walletAddress] = MaxScore
  /\ \E v \in Wallets : leaderboard[v] = 0

\* a read of the ranking has answered 200 and the ranking is as it read it
RankingRead == lastOp = "leaderboardGet" /\ reply.status = 200

\* the entries are ranked 1, 2, ... and carry the scores of distinct members
\* of the ranking
RankedEntries(L) ==
  /\ \A i \in DOMAIN L :
       /\ L[i].rank = i
       /\ L[i].walletAddress \in DOMAIN leaderboard
       /\ L[i].credits = leaderboard[L[i].walletAddress]
  /\ \A i, j \in DOMAIN L :
       i # j => L[i].walletAddress # L[j].walletAddress

\* C26: topN(n) with n >= 1 returns min(n, size) entries, the highest-scored
\* members of the ranking in non-increasing order of score, the i-th entry
\* with rank i; on an empty ranking it returns the empty list with status
\* 200.
C26_TopN ==
  (RankingRead /\ reply.query.search = <<>> /\ reply.query.limit >= 1)
    => LET L == reply.leaderboard
           listed == {L[i].walletAddress : i \in DOMAIN L}
       IN /\ Len(L) = Min(reply.query.limit, Cardinality(DOMAIN leaderboard))
          /\ RankedEntries(L)
          /\ \A i, j \in DOMAIN L : i < j => L[i].credits >= L[j].credits
          /\ \A i \in DOMAIN L : \A m \in DOMAIN leaderboard \ listed :
               L[i].credits >= leaderboard[m]
          /\ DOMAIN leaderboard = {} => L = <<>>

\* the top two of three members were read, two of the three having equal
\* scores
C26_Witness ==
  /\ RankingRead
  /\ reply.query = [limit |-> 2, search |-> <<>>]
  /\ Len(reply.leaderboard) = 2
  /\ DOMAIN leaderboard = Members
  /\ leaderboard["W1"] = leaderboard["W3"]
  /\ leaderboard["W2"] > leaderboard["W1"]
  /\ reply.leaderboard[1].walletAddress = "W2"

\* the lower-case form of a character
ToLower(c) == CASE c = "P" -> "p" [] c = "W" -> "w" [] OTHER -> c
LowerCase(str) == [i \in DOMAIN str |-> ToLower(str[i])]

\* str contains term, the case of the letters set aside
Contains(str, term) ==
  \E i \in 1..(Len(str) - Len(term) + 1) :
    SubSeq(LowerCase(str), i, i + Len(term) - 1) = LowerCase(term)

\* C27: search(term, limit) returns only entries whose username or wallet
\* address contains the term, in the order of the ranking with ranks from
\* 1, and at most limit entries.
C27_SearchFilters ==
  (RankingRead /\ reply.query.search # <<>>)
    => LET L == reply.leaderboard
       IN /\ \A i \in DOMAIN L :
               \/ Contains(L[i].username, reply.query.search)
               \/ Contains(Address(L[i].walletAddress), reply.query.search)
          /\ Len(L) <= reply.query.limit
          /\ RankedEntries(L)
          /\ \A i, j \in DOMAIN L : i < j => L[i].credits >= L[j].credits

\* C28: the segment reconciled for a finalized computation is the one the
\* computation put on chain, so two runs that observe the same on-chain
\* result reconcile the same segment; it is never a number drawn by the
\* client.
C28_SegmentIsOnChainResult ==
  (lastOp = "settledDaily" /\ poll.pc = "fetched")
    => /\ poll.result = poll.event
       /\ resultText.label = wheelValues[poll.event]

\* C30: the saves of a session are awaited one after the other: at most one
\* POST of the player record is outstanding, and no spin or claim starts
\* while a save issued by an earlier operation is still pending.
C30_SavesAwaitedInOrder ==
  [][/\ Cardinality(requests') <= 1
     /\ lastOp' \in {"dailyStarted", "dailyRollover", "practiceStarted",
                     "claimed"}
          => requests = {}]_vars

\* how the session ends a failed call of the player store, the ranking or
\* the computation: a failed save and a failed spin show their message and
\* the spin is over, a failed load of the player leaves the default state,
\* a failed read of the ranking renders the empty list
FailureHandled ==
  /\ lastOp' = "postFail"
       => resultText' = Text("Failed to save progress. Please try again.")
  /\ lastOp' = "spinFailed"
       => /\ resultText' \in {Text(SpinErrorText(fault)) : fault \in Faults}
          /\ isSpinning' = FALSE
  /\ lastOp' = "initFallback"
       => /\ playerCredits' = 0
          /\ lastClaimTime' = NoTime
          /\ spinsUsedToday' = 0
          /\ lastSpinResetDate' = getUTCDateString
  /\ lastOp' \in {"boardFailed", "searchFailed"} => board' = <<>>
  /\ lastOp' \in {"postFail", "spinFailed", "initFallback", "boardFailed",
                  "searchFailed", "weeklyCheckFailed"}
       => \A t \in Slots : tasks'[t].pc \notin {"fetchfail", "computing"}
                             \/ tasks'[t] = tasks[t]

\* C29 as stated: no failed external call leaves a session operation
\* unhandled; each ends in a state update or a displayed message, the call
\* of the weekly reset endpoint included.
C29_FailuresEndInUpdateOrMessage ==
  [][/\ FailureHandled
     /\ lastOp' = "weeklyCheckFailed"
          => \/ lastWeeklyReset' # lastWeeklyReset
             \/ resultText' # resultText]_vars

\* C29 amended: the same for the player store, the ranking and the
\* computation; a failed call of the weekly reset endpoint is caught and
\* logged only: it updates no state and displays nothing.
C29_FailuresAreCaught ==
  [][/\ FailureHandled
     /\ lastOp' = "weeklyCheckFailed"
          => UNCHANGED <<sessVars, pageVars, storeVars, tasks>>]_vars

\* on a Saturday a save had failed and shown its message when the call of
\* the weekly reset endpoint failed
C29_Witness ==
  /\ lastOp = "weeklyCheckFailed"
  /\ getUTCDay = 6
  /\ lastWeeklyReset = NoTime
  /\ wallet = "W1"
  /\ resultText = Text("Failed to save progress. Please try again.")

\* C31: no save carries the default state of the client in place of the
\* stored record: the fallback of a failed load issues no save, and no save
\* that is stored replaces a positive balance and a claim time by credits 0
\* and no claim time.
C31_NoSaveOfDefaults ==
  [][/\ lastOp' = "initFallback" => requests' \subseteq requests
     /\ lastOp' = "post"
          => \A w \in DOMAIN player :
               ~ /\ player[w].credits > 0
                 /\ player[w].claimTime # NoTime
                 /\ player'[w].credits = 0
                 /\ player'[w].claimTime = NoTime]_vars

\* C32: once the weekly reset of this week has zeroed the stored credits of
\* a wallet, they derive from the activity after the reset alone: until a
\* claim made after the reset is stored they stay 0, whatever a session that
\* loaded the balance before the reset saves (a spin of 0 credits and a day
\* rollover yield 0).
C32_ResetBalanceStaysReset ==
  (lastResetWeek = getWeekNumber /\ player["W1"].claimTime = FirstTick)
    => player["W1"].credits = 0

\* C33: whenever no store operation is in progress, every member of the
\* ranking has a score equal to the stored credits of that wallet, whatever
\* the order in which the store calls of overlapping saves, fetches and
\* sweeps were served.
C33_RankingMatchesCredits ==
  (\A k \in CallIds : ~InProgress(k))
    => \A w \in DOMAIN leaderboard :
         w \in DOMAIN player /\ leaderboard[w] = player[w].credits

\* the balance a page holds after one daily spin on the balance it loaded
OneSpin(b) ==
  {applyResult(b, wheelValues[segmentIndex(raw) + 1], TRUE) : raw \in DailyRaw}

\* both pages have settled their spin and both saves are stored
BothSaved == \A k \in CallIds : calls[k].op = "playerPost" /\ calls[k].pc = "done"

\* C34: the saves of two pages of one wallet that settle a daily spin at the
\* same time are not merged: each save carries the loaded balance with that
\* page's spin applied, and when both are stored the stored credits are
\* those of one of the two saves (the last write wins), so only one of the
\* two spins is reflected.
C34_LastWriteWins ==
  /\ \A k \in CallIds :
       calls[k].op = "playerPost" => calls[k].body.credits \in OneSpin(playerCredits)
  /\ BothSaved
       => /\ player["W1"].credits \in {calls[k].body.credits : k \in CallIds}
          /\ player["W1"].credits \in OneSpin(playerCredits)

\* the two pages drew different segments (2x and -80%), both saves are
\* stored and the stored credits are those of the second page alone; both
\* spins applied in turn would have given 60
C34_Witness ==
  /\ BothSaved
  /\ calls[1].body.credits = applyResult(basePoints, "2x", TRUE)
  /\ calls[2].body.credits = applyResult(basePoints, "-80%", TRUE)
  /\ calls[1].body.credits # calls[2].body.credits
  /\ player["W1"].credits = calls[2].body.credits
  /\ player["W1"].credits # applyResult(calls[1].body.credits, "-80%", TRUE)

\* a call of getAccountInfo is made in this step, and it is not the first
NextCheck == poll'.checks = poll.checks + 1 /\ poll.checks >= 1

\* C35 as stated: between any two consecutive checks the loop waits the
\* retry delay, also after a check that failed with a network fault; the
\* delay is never skipped.
C35_DelayBetweenChecks ==
  [][NextCheck => lastOp = "delayElapsed"]_vars

\* C35 amended: a check that returned no account is followed by one wait of
\* the retry delay and then the next check; a check that threw is followed
\* by the next check at once; no wait happens elsewhere, so a wait is never
\* repeated or lengthened.
C35_DelayAfterAbsentCheck ==
  [][/\ lastOp' = "checkAbsent" => poll'.pc = "sleep"
     /\ lastOp' = "delayElapsed" => lastOp = "checkAbsent"
     /\ NextCheck => lastOp \in {"delayElapsed", "checkFaults"}
     /\ (NextCheck /\ lastOp = "checkFaults") => poll.pc = "check"
     /\ lastOp' = "checkFaults" => poll'.pc # "sleep"]_vars

\* after two checks, the second of which returned no account, the delay
\* has elapsed and the third check is due
C35_Witness ==
  /\ lastOp = "delayElapsed"
  /\ poll.pc = "check"
  /\ poll.checks = 2
  /\ poll.i = 2

\* the claims that have succeeded and not yet returned
ClaimsPending == {t \in Slots : tasks[t].pc \in {"c_save", "c_resume"}}

\* C36: however the invocations of claimBasePoints interleave, at most one
\* succeeds per cooldown window: the balance, which starts at 0 and grows by
\* claims alone, never exceeds basePoints for each window begun; a
\* successful invocation adds exactly basePoints and stamps lastClaimTime in
\* the same step, and an invocation made inside the window, also while the
\* save of the successful one is pending, is refused and changes nothing.
C36_OneClaimPerWindow ==
  [][/\ playerCredits'
          <= basePoints * (1 + ((now' - FirstTick) \div cooldownPeriod))
     /\ lastOp' = "claimed"
          => /\ CooldownOver
             /\ playerCredits' = playerCredits + basePoints
             /\ lastClaimTime' = now
     /\ (lastOp' \in ClaimOps /\ ~CooldownOver)
          => /\ lastOp' = "claimRefused"
             /\ UNCHANGED <<playerCredits, lastClaimTime, requests, tasks>>]_vars

\* a second invocation has been refused while the save of the first one,
\* which succeeded at this instant, is still awaited
C36_Witness ==
  /\ lastOp = "claimRefused"
  /\ ClaimsPending # {}
  /\ requests # {}
  /\ lastClaimTime = now
  /\ playerCredits = basePoints

\* C37: the outcome of a daily spin, which wallet W1 submitted, is applied
\* to the balance of W1 and saved under the address of W1: when another
\* wallet is connected at the settlement neither the balance and the spin
\* count held for that wallet change nor is a save sent under its address.
C37_SettledForSubmitter ==
  [][lastOp' = "settledDaily"
       => /\ \A r \in requests' \ requests : r.wallet = "W1"
          /\ wallet # "W1"
               => UNCHANGED <<playerCredits, spinsUsedToday>>]_vars

\* C38: a sweep that records the current week has zeroed the stored credits
\* of every wallet that was registered when it ran, also when the read or
\* the write of some player failed during the sweep.
C38_RecordedWeekMeansAllZeroed ==
  [][(lastOp' = "sweep" /\ lastResetWeek' = getWeekNumber)
       => \A w \in playersAll \cap DOMAIN player : player'[w].credits = 0]_vars

\* the bodies of the POSTs of the set R
SentBodies(R) ==
  {[wallet |-> r.wallet, credits |-> r.credits, spinsLeft |-> r.spinsLeft,
    claimTime |-> r.claimTime] : r \in R}

\* C39: no step that ends with the wallet disconnected sends a POST, be it
\* the disconnect handler, the timer, or a spin that settles after the
\* disconnect; the disconnect handler zeroes the credits held in memory and
\* leaves the stored records, the player set and the ranking as they are.
C39_NoSaveWhileDisconnected ==
  [][/\ wallet' = NoWallet => SentBodies(requests') \subseteq SentBodies(requests)
     /\ lastOp' = "disconnect"
          => /\ wallet' = NoWallet
             /\ playerCredits' = 0
             /\ UNCHANGED storeVars]_vars

\* the wallet was disconnected while a balance was held and stored: the
\* balance in memory is 0, nothing is in flight and the stored record and
\* the score keep the balance
C39_Witness ==
  /\ lastOp = "disconnect"
  /\ wallet = NoWallet
  /\ playerCredits = 0
  /\ requests = {}
  /\ player["W1"].credits = basePoints
  /\ leaderboard["W1"] = basePoints

\* rawResult - 1 clamped into 0..segmentCount - 1, spelled out by cases
Clamped(rawResult) ==
  IF rawResult <= 0 THEN 0
  ELSE IF rawResult > wheelSections THEN wheelSections - 1
  ELSE rawResult - 1

\* C40: for every integer raw result the segment index is rawResult - 1
\* clamped into 0..7: 1..8 map to 0..7, values <= 0 to 0 and values > 8 to
\* 7; the index addresses a configured segment, whose label is the one
\* handleArciumSpinResult reconciles and shows.
C40_SegmentIndexClamped ==
  /\ segmentIndex(poll.result) = Clamped(poll.result)
  /\ segmentIndex(poll.result) \in 0..(Len(wheelValues) - 1)
  /\ poll.result \in 1..wheelSections
       => segmentIndex(poll.result) = poll.result - 1
  /\ lastOp = "settledDaily"
       => resultText.label = wheelValues[Clamped(poll.result) + 1]

\* a raw result below 1 has been reconciled as the first segment
C40_Witness ==
  /\ lastOp = "settledDaily"
  /\ poll.result < 0
  /\ resultText.label = wheelValues[1]
  /\ playerCredits = applyResult(basePoints, wheelValues[1], TRUE)

TypeOK ==
  /\ now \in FirstTick..LastTick
  /\ wallet \in Wallets \cup {NoWallet}
  /\ isSpinning \in BOOLEAN
  /\ playerCredits \in Int
  /\ playersAll \subseteq Wallets

====
